---- MODULE Spec2Model ----
(***************************************************************************)
(* Model of the ask pipeline of nj-assistant                               *)
(* (backend/app/services/ask.py, hybrid_chunks.py, bm25_chunks.py,         *)
(* faiss_chunks.py, rerank.py, tables.py).                                 *)
(*                                                                         *)
(* Text is modelled as a sequence of tokens.  A token is a word, a dotted  *)
(* section id ("701.02" is Sec(<<701, 2>>)), a table number ("701.02.01-1" *)
(* is Tab(<<701, 2, 1>>, 1)), an integer literal, a citation marker "[n]"  *)
(* or a line break.  Every regular expression of the source is translated  *)
(* into the predicate it decides on such token sequences.  All texts of    *)
(* the model are shorter than the snippet windows of the source (240..520  *)
(* characters), so a snippet is the whole text with line breaks replaced   *)
(* by spaces.                                                              *)
(***************************************************************************)
EXTENDS Integers, Sequences, FiniteSets, TLC

(***************************************************************************)
(* Bounds of the model.                                                    *)
(***************************************************************************)
\* largest number of section chunks put into the document store
MaxChunks == 2
\* largest requested result count k (the API allows 1..12)
MaxK == 2

(***************************************************************************)
(* Tokens.                                                                 *)
(***************************************************************************)
W(s) == [t |-> "w", w |-> s, id |-> <<>>, n |-> 0]
\* "couldn't" written with the apostrophe U+2019, as ask.py writes it, and
\* with the ASCII apostrophe
CouldntTypographic == W("couldn(U+2019)t")
Couldnt == W("couldn't")
Sec(id) == [t |-> "sec", w |-> "", id |-> id, n |-> 0]
Tab(id, n) == [t |-> "tab", w |-> "", id |-> id, n |-> n]
Num(n) == [t |-> "num", w |-> "", id |-> <<>>, n |-> n]
Cite(n) == [t |-> "cite", w |-> "", id |-> <<>>, n |-> n]
NL == [t |-> "nl", w |-> "", id |-> <<>>, n |-> 0]

\* absent value of an optional field (None)
None == <<>>

Range(s) == {s[i] : i \in 1..Len(s)}

Min2(a, b) == IF a <= b THEN a ELSE b
Max2(a, b) == IF a >= b THEN a ELSE b

\* s[:n]
Take(s, n) == SubSeq(s, 1, Min2(n, Len(s)))
\* s[n:] (0-based n, as in Python)
Drop(s, n) == SubSeq(s, Min2(n, Len(s)) + 1, Len(s))

\* sub occurs in s as a contiguous run of tokens
ContainsSeq(s, sub) ==
  \E i \in 1..(Len(s) + 1 - Len(sub)) : SubSeq(s, i, i + Len(sub) - 1) = sub

HasWord(s, word) == \E i \in 1..Len(s) : s[i] = W(word)

\* the elements of s in order, each kept once (first occurrence)
RECURSIVE Dedup(_)
Dedup(s) ==
  IF s = <<>> THEN <<>>
  ELSE LET r == Dedup(Take(s, Len(s) - 1))
           x == s[Len(s)]
       IN IF x \in Range(r) THEN r ELSE Append(r, x)

\* the indices 1..Len(keys) ordered by ascending key; equal keys keep their
\* order (Python's sorted is stable)
RECURSIVE SortPerm(_)
SortPerm(keys) ==
  IF keys = <<>> THEN <<>>
  ELSE LET n == Len(keys)
           r == SortPerm(Take(keys, n - 1))
           p == Cardinality({i \in 1..Len(r) : keys[r[i]] <= keys[n]})
           \* r is sorted: the indices with key <= keys[n] are a prefix
       IN Take(r, p) \o <<n>> \o Drop(r, p)

\* sorted(s, key=...) where keys[i] is the key of s[i]
SortAsc(s, keys) == LET p == SortPerm(keys \o <<>>) IN [i \in 1..Len(s) |-> s[p[i]]] \o <<>>

\* sorted(s, key=..., reverse=True): descending, equal keys keep their order
SortDesc(s, keys) == SortAsc(s, [i \in 1..Len(keys) |-> 0 - keys[i]])

(***************************************************************************)
(* The document store.  A row is a chunk joined with its document          *)
(* (chunks c JOIN documents d); a hit is the row it was hydrated from.  CH *)
(* is the catalogue of chunks that chunk_document_pages and                *)
(* extract_table_blocks produce for a two-document corpus, ids in insertion*)
(* order (a document's section chunks, then its table-row chunks).  The    *)
(* lines of a table block are part of the page text, so they are also in   *)
(* the text of the section chunk of that page.                             *)
(***************************************************************************)
NoTable == ""

Chunk(id, doc, sec, head, ps, pe, kind, tab, row, text) ==
  [id |-> id, doc_type |-> doc, section_id |-> sec, heading |-> head, page_start |-> ps,
   page_end |-> pe, chunk_kind |-> kind, table_uid |-> tab,
   table_row_index |-> row, text |-> text, score |-> 0,
   mp_id |-> IF doc = "mp" THEN "MP1" ELSE ""]

\* the rows of an extracted table block: its header line and four data lines
\* (extract_table_blocks keeps blocks of at least 5 non-blank lines)
TableRowText(tok, r) ==
  IF r = 0 THEN <<W("table"), tok, W("conduit"), W("sizes")>>
  ELSE <<W("rigid"), Num(r), W("in")>>

\* the lines of the block as they stand in the page text
TableLines(tok) ==
  TableRowText(tok, 0) \o <<NL>> \o TableRowText(tok, 1) \o <<NL>> \o TableRowText(tok, 2)
  \o <<NL>> \o TableRowText(tok, 3) \o <<NL>> \o TableRowText(tok, 4)

SectionIds == 1..8
Table2Ids == 9..13
Table3Ids == 14..18
MpIds == {19}
ChunkIds == SectionIds \cup Table3Ids \cup Table2Ids \cup MpIds

CH ==
  [c \in ChunkIds |->
    CASE c = 1 -> Chunk(c, "standspec", None, <<>>,
                        1, 1, "front_matter", NoTable, -1,
                        <<W("standard"), W("specifications"), W("conduit")>>)
      \* a table-of-contents page whose first line reads like a subsection header
      [] c = 2 -> Chunk(c, "standspec", <<701, 1>>, <<Sec(<<701, 1>>), W("description")>>,
                        2, 2, "toc", NoTable, -1,
                        <<Sec(<<701, 1>>), W("description"), W("..."), Num(12)>>)
      [] c = 3 -> Chunk(c, "standspec", <<701>>,
                        <<W("section"), Sec(<<701>>), W("general"), W("items")>>,
                        3, 3, "content", NoTable, -1,
                        <<W("section"), Sec(<<701>>), W("general"), W("items")>>)
      [] c = 4 -> Chunk(c, "standspec", <<701, 1>>, <<Sec(<<701, 1>>), W("description")>>,
                        4, 4, "content", NoTable, -1,
                        <<Sec(<<701, 1>>), W("description"), NL, W("conduit"), W("work"), NL>>
                        \o TableLines(Tab(<<701, 1>>, 1)))
      [] c = 5 -> Chunk(c, "standspec", <<701, 2>>, <<Sec(<<701, 2>>), W("materials")>>,
                        5, 5, "content", NoTable, -1,
                        <<Sec(<<701, 2>>), W("materials"), NL, W("provide"), W("materials"),
                          W("as"), W("specified"), W("in"), Sec(<<901, 3>>)>>)
      [] c = 6 -> Chunk(c, "standspec", <<701, 2, 1>>, <<Sec(<<701, 2, 1>>), W("conduit")>>,
                        5, 5, "content", NoTable, -1,
                        <<Sec(<<701, 2, 1>>), W("conduit"), NL, W("rigid"), W("metallic"),
                          W("conduit"), NL>> \o TableLines(Tab(<<701, 2, 1>>, 1)))
      \* a 701.03 chunk whose kept preamble has a line that starts with the id
      \* of another section (a wrapped cross reference)
      [] c = 7 -> Chunk(c, "standspec", <<701, 3>>, <<Sec(<<701, 3>>), W("construction")>>,
                        6, 6, "content", NoTable, -1,
                        <<W("install"), W("conduit"), NL, Sec(<<702, 1>>), W("excavation"),
                          NL, Sec(<<701, 3>>), W("construction")>>)
      [] c = 8 -> Chunk(c, "standspec", <<109, 5>>, <<Sec(<<109, 5>>), W("payment")>>,
                        7, 7, "content", NoTable, -1,
                        <<Sec(<<109, 5>>), W("payment"), NL, W("interest"), W("begins"),
                          W("to"), W("accrue"), W("at"), W("the"), W("prime"), W("rate"),
                          W("if"), W("the"), W("subcontractor"), W("is"), W("not"),
                          W("paid"), W("within"), Num(10), W("days"), W("after"),
                          W("receipt")>>)
      [] c \in Table2Ids -> Chunk(c, "standspec", None, <<>>, 4, 4, "table_row", "t2", c - 9,
                                  TableRowText(Tab(<<701, 1>>, 1), c - 9))
      [] c \in Table3Ids -> Chunk(c, "standspec", None, <<>>, 5, 5, "table_row", "t3", c - 14,
                                  TableRowText(Tab(<<701, 2, 1>>, 1), c - 14))
      [] c = 19 -> Chunk(c, "mp", <<701, 2>>, <<Sec(<<701, 2>>), W("materials")>>,
                         1, 1, "content", NoTable, -1,
                         <<Sec(<<701, 2>>), W("materials"), W("testing")>>)]

\* the table-row chunks that rebuild_chunks extracts from the pages of the
\* section chunks sc: chunk 4 holds the block of table 701.01-1, chunk 6 that
\* of table 701.02.01-1
TableChunksOf(sc) ==
  (IF 4 \in sc THEN Table2Ids ELSE {}) \cup (IF 6 \in sc THEN Table3Ids ELSE {})

\* the chunk sets of the model: at most MaxChunks section chunks of the
\* standspec document with the rows of their tables, and optionally the chunk
\* of the mp document
StoreIds ==
  {sc \cup TableChunksOf(sc) \cup mp :
     sc \in {x \in SUBSET SectionIds : Cardinality(x) <= MaxChunks},
     mp \in {{}, MpIds}}

(***************************************************************************)
(* rebuild_chunks tags every table-row chunk with the section and heading  *)
(* of the last section chunk that starts on or before the table's page.    *)
(***************************************************************************)
\* the section chunks of the table's document that can give the context
ContextCandidates(chunks, page) ==
  {c \in chunks : /\ c.id \in SectionIds
                  /\ c.page_start <= page
                  /\ c.section_id # None}

\* the last of them in (page_start, page_end) order
LastContext(cand) ==
  CHOOSE c \in cand :
    \A d \in cand :
      \/ d.page_start < c.page_start
      \/ /\ d.page_start = c.page_start
         /\ \/ d.page_end < c.page_end
            \/ d.page_end = c.page_end /\ d.id <= c.id

WithContext(c, cand) ==
  IF c.chunk_kind = "table_row" /\ cand # {}
  THEN [c EXCEPT !.section_id = LastContext(cand).section_id,
                 !.heading = LastContext(cand).heading]
  ELSE c

section_context_by_page(chunks, c) == WithContext(c, ContextCandidates(chunks, c.page_start))

\* the rows of the chunks table after rebuild_chunks
rebuild_chunks(chunks) == {section_context_by_page(chunks, c) : c \in chunks}

Catalogue(ids) == {CH[c] : c \in ids}

Stores == {rebuild_chunks(Catalogue(ids)) : ids \in StoreIds}

\* number of table_rows rows of a table: one per non-blank line of its block
TableRowsOf(store, uid) ==
  Cardinality({c \in store : c.chunk_kind = "table_row" /\ c.table_uid = uid})

\* _make_snippet / _make_query_focused_snippet on a text shorter than the
\* window: line breaks become spaces, the text is kept whole
Snippet(c) == SelectSeq(c.text, LAMBDA tok : tok.t # "nl")

(***************************************************************************)
(* Intent predicates on the query (ask.py, rerank.py, hybrid_chunks.py).   *)
(* Integer literals of the model have one or two digits; a three-digit     *)
(* number is written Sec(<<n>>).  Queries of the model hold no section     *)
(* sign.                                                                   *)
(***************************************************************************)
\* the dotted id DDD.DD or DDD.DD.DD that a token holds (the id part of a
\* table number "701.02.01-1" matches \d{3}\.\d{2}(?:\.\d{2})?\b as well)
DottedOf(tok) ==
  IF tok.t \in {"sec", "tab"} /\ Len(tok.id) >= 2 THEN tok.id ELSE None

StartsWith3Digits(tok) == tok.t \in {"sec", "tab"}

NoPrefix == 0
NoToken == [t |-> "none", w |-> "", id |-> <<>>, n |-> 0]

extract_exact_section_id(q) ==
  IF q # <<>> /\ DottedOf(q[1]) # None THEN DottedOf(q[1]) ELSE None

\* the first match of \bsection\s*(\d{3})\b
SectionWordPrefix(q) ==
  LET at == {i \in 1..(Len(q) - 1) : q[i] = W("section") /\ StartsWith3Digits(q[i + 1])}
  IN IF at = {} THEN NoPrefix
     ELSE q[(CHOOSE i \in at : \A j \in at : i <= j) + 1].id[1]

extract_section_prefix(q) ==
  IF SectionWordPrefix(q) # NoPrefix THEN SectionWordPrefix(q)
  ELSE IF Len(q) = 1 /\ q[1].t = "sec" /\ Len(q[1].id) = 1 THEN q[1].id[1]
  ELSE NoPrefix

\* rerank.py: a 3-digit number (with up to two .DD groups) or the letters SECTION
is_section_intent(q) ==
  \E i \in 1..Len(q) :
    \/ StartsWith3Digits(q[i])
    \/ q[i] \in {W("section"), W("sections"), W("subsection")}

is_bare_section_id_query(q) ==
  Len(q) = 1 /\ q[1].t = "sec" /\ Len(q[1].id) >= 2

LocationTriggers ==
  {<<W("which"), W("section")>>, <<W("what"), W("section")>>,
   <<W("section"), W("number")>>, <<W("section"), W("id")>>,
   <<W("what"), W("page")>>, <<W("which"), W("page")>>, <<W("page"), W("number")>>,
   <<W("where"), W("in"), W("the"), W("manual")>>,
   <<W("where"), W("in"), W("the"), W("spec")>>,
   <<W("where"), W("can"), W("i"), W("find")>>,
   <<W("cite")>>, <<W("citation")>>, <<W("reference")>>}

\* the triggers alone
asks_by_trigger(q) == \E tr \in LocationTriggers : ContainsSeq(q, tr)

question_asks_for_section_or_page(q) ==
  \/ \E tr \in LocationTriggers : ContainsSeq(q, tr)
  \/ \E i \in 1..Len(q) : DottedOf(q[i]) # None

looks_like_table_query(q) ==
  \E i \in 1..Len(q) : q[i] \in {W("table"), W("tables"), W("tab."), W("chart"), W("tbl")}

\* \btable\s*(\d{3}\.\d{2}\.\d{2}-\d+|\d{3}\.\d{2}-\d+)\b
extract_table_token(q) ==
  LET at == {i \in 1..(Len(q) - 1) : q[i] = W("table") /\ q[i + 1].t = "tab"}
  IN IF at = {} THEN NoToken
     ELSE q[(CHOOSE i \in at : \A j \in at : i <= j) + 1]

\* re.fullmatch(r"\d{3}\.\d{2}\.\d{2}-\d+", table_token)
explicit_table(q) ==
  extract_table_token(q) # NoToken /\ Len(extract_table_token(q).id) = 3

\* within how many days | within \d+ days | days after | within .* days
is_time_limit_question(q) ==
  \/ ContainsSeq(q, <<W("days"), W("after")>>)
  \/ \E i, j \in 1..Len(q) : q[i] = W("within") /\ q[j] = W("days") /\ j >= i + 2

\* \bhow many days\b|\bwithin \d+ days\b|\bdays\b
asks_about_days(q) == HasWord(q, "days")

(***************************************************************************)
(* Tokenizers.  A run of letters and digits ([a-z0-9]+) is an atom: a word *)
(* or a digit string, written Piece(width, value) ("02" is Piece(2, 2)).   *)
(***************************************************************************)
Piece(width, value) == [t |-> "p", w |-> "", id |-> <<width, value>>, n |-> 0]

Width(n) == IF n < 10 THEN 1 ELSE IF n < 100 THEN 2 ELSE 3

\* the sub-numbers of a dotted id: "701.02.01" is "701", "02", "01"
IdPieces(id) == [i \in 1..Len(id) |-> Piece(IF i = 1 THEN 3 ELSE 2, id[i])]

NonAlnumWords == {"..."}

\* re.findall(r"[a-z0-9]+", text.lower()) on one token
AlnumPieces(tok) ==
  CASE tok.t = "w" -> IF tok.w \in NonAlnumWords THEN <<>>
                      ELSE IF tok.w = "tab." THEN <<W("tab")>> ELSE <<tok>>
    [] tok.t = "sec" -> IdPieces(tok.id)
    [] tok.t = "tab" -> Append(IdPieces(tok.id), Piece(Width(tok.n), tok.n))
    [] tok.t \in {"num", "cite"} -> <<Piece(Width(tok.n), tok.n)>>
    [] OTHER -> <<>>

RECURSIVE Alnum(_)
Alnum(text) ==
  IF text = <<>> THEN <<>> ELSE AlnumPieces(Head(text)) \o Alnum(Tail(text))

STOPWORDS ==
  {"what", "requirement", "section", "sections", "the", "a", "an", "for", "of", "is",
   "are", "in", "to", "and", "does", "say", "about"}

\* the words of the model that have fewer than 3 letters
ShortWords == {"a", "an", "as", "at", "if", "in", "to", "of", "is", "or", "i", "id", "p.", "pp."}

AtomLen3(a) == IF a.t = "w" THEN a.w \notin ShortWords ELSE a.id[1] >= 3

tokenize_bm25(text) ==
  LET toks == SelectSeq(Alnum(text), LAMBDA a : ~(a.t = "w" /\ a.w \in STOPWORDS))
  IN IF toks = <<>> THEN <<W("_")>> ELSE toks

tokenize_relevance(text) ==
  {a \in Range(Alnum(text)) : ~(a.t = "w" /\ a.w \in STOPWORDS) /\ AtomLen3(a)}

\* the decimal digits of a digit string
Digits(p) ==
  LET width == p.id[1]
      v == p.id[2]
  IN IF width = 1 THEN <<v>>
     ELSE IF width = 2 THEN <<v \div 10, v % 10>>
     ELSE <<v \div 100, (v \div 10) % 10, v % 10>>

\* pairs of words of the model of which the first is a substring of the second
SubWords == {<<"day", "days">>, <<"material", "materials">>, <<"table", "tables">>,
             <<"section", "sections">>, <<"section", "subsection">>}

\* Python's "a in text" for an atom a and a text: a substring test
AtomIn(a, text) ==
  \E b \in Range(Alnum(text)) :
    IF a.t = "w" THEN b.t = "w" /\ (b.w = a.w \/ <<a.w, b.w>> \in SubWords)
    ELSE b.t = "p" /\ ContainsSeq(Digits(b), Digits(a))

(***************************************************************************)
(* Document-store queries of ask.py.  Rows come back ordered by            *)
(* page_start, then chunk id.                                              *)
(***************************************************************************)
\* the scope of a request: its name and the mp_ids sent with it (none: {})
Scope(name, mp_ids) == [name |-> name, mp_ids |-> mp_ids]

Scopes == {Scope("all", {}), Scope("standspec", {})}

\* the scopes on the material-procedure documents; the one MP document of
\* the model is MP1
MpScopes ==
  {Scope("mp", {}), Scope("mp_only", {}), Scope("mp_only", {"MP1"}), Scope("mp_only", {"MP2"})}

\* _apply_scope_filters: the WHERE conditions it appends, on the row c
apply_scope_filters(c, scope) ==
  /\ IF scope.name # "all"
     THEN IF scope.name = "mp_only" THEN c.doc_type = "mp" ELSE c.doc_type = scope.name
     ELSE TRUE
  /\ (scope.name \in {"mp_only", "mp"} /\ scope.mp_ids # {}) => c.mp_id \in scope.mp_ids

\* allowed(i) of bm25_chunks_search_filtered and allowed(m) of
\* faiss_chunks_search_filtered, with min_equation_score = None
allowed_by_scope(m, scope) ==
  CASE scope.name = "all" -> TRUE
    [] scope.name \in {"standspec", "scheduling", "mp"} -> m.doc_type = scope.name
    [] scope.name = "mp_only" -> m.doc_type = "mp" /\ m.mp_id \in scope.mp_ids
    [] OTHER -> TRUE

\* ORDER BY c.page_start ASC, c.id ASC LIMIT limit
RECURSIVE ByPageAndId(_)
ByPageAndId(rows) ==
  IF rows = {} THEN <<>>
  ELSE LET c == CHOOSE x \in rows :
                  \A y \in rows :
                    \/ x.page_start < y.page_start
                    \/ x.page_start = y.page_start /\ x.id <= y.id
       IN <<c>> \o ByPageAndId(rows \ {c})

OrderedRows(rows, limit) == Take(ByPageAndId(rows), limit)

NotTocOrFrontMatter(c) == c.chunk_kind \notin {"toc", "front_matter"}

\* s is id followed by at least one more ".DD" group (section_id LIKE 'id.%')
IsChildOf(s, id) == Len(s) > Len(id) /\ SubSeq(s, 1, Len(id)) = id

\* faulty variant of db_fetch_exact_section: the id is matched as a prefix of
\* longer ids only (section_id LIKE 'id.%' without section_id = id)
fetch_children(store, section_id, scope, limit) ==
  OrderedRows({c \in store :
                 /\ IsChildOf(c.section_id, section_id)
                 /\ NotTocOrFrontMatter(c)
                 /\ apply_scope_filters(c, scope)}, limit)

db_fetch_exact_section(store, section_id, scope, limit) ==
  OrderedRows({c \in store :
                 /\ c.section_id = section_id
                 /\ NotTocOrFrontMatter(c)
                 /\ apply_scope_filters(c, scope)}, limit)

db_fetch_exact_or_children(store, section_id, scope, limit) ==
  OrderedRows({c \in store :
                 /\ \/ c.section_id = section_id
                    \/ IsChildOf(c.section_id, section_id)
                 /\ NotTocOrFrontMatter(c)
                 /\ apply_scope_filters(c, scope)}, limit)

db_fetch_prefix_sections(store, prefix3, scope, limit) ==
  OrderedRows({c \in store :
                 /\ \/ c.section_id = <<prefix3>>
                    \/ IsChildOf(c.section_id, <<prefix3>>)
                 /\ NotTocOrFrontMatter(c)
                 /\ apply_scope_filters(c, scope)}, limit)

\* the table number tok occurs in text (LIKE '%tok%'): "701.02-1" occurs in
\* "701.02-1" and in "701.02-10"
TableTokenIn(tok, text) ==
  \E i \in 1..Len(text) :
    /\ text[i].t = "tab"
    /\ text[i].id = tok.id
    /\ \/ text[i].n = tok.n
       \/ text[i].n >= 10 /\ text[i].n \div 10 = tok.n

\* faulty variant of db_fetch_table_token_hits: the token is looked for in the
\* heading only, not in the row text
fetch_by_heading(store, table_token, scope, limit) ==
  OrderedRows({c \in store :
                 /\ c.chunk_kind = "table_row"
                 /\ c.table_uid # NoTable
                 /\ TableTokenIn(table_token, c.heading)
                 /\ apply_scope_filters(c, scope)}, limit)

\* table_label is "Table (p. N) #i", which holds no table number
db_fetch_table_token_hits(store, table_token, scope, limit) ==
  OrderedRows({c \in store :
                 /\ c.chunk_kind = "table_row"
                 /\ c.table_uid # NoTable
                 /\ \/ TableTokenIn(table_token, c.text)
                    \/ TableTokenIn(table_token, c.heading)
                 /\ apply_scope_filters(c, scope)}, limit)

\* SELECT COUNT(1) FROM table_rows WHERE table_uid = ?
table_has_enough_rows(store, uid, min_rows) == TableRowsOf(store, uid) >= min_rows

\* get_table_meta: the tables row of uid joined with its document, if any
get_table_meta(store, uid) == \E c \in store : c.chunk_kind = "table_row" /\ c.table_uid = uid

(***************************************************************************)
(* Helpers of ask.py on hits.  A hit is the id of its chunk; its snippet   *)
(* is Snippet(c) once hydrated from the chunk text.                        *)
(***************************************************************************)
\* the positions of text at which a line starts
LineStarts(text) == {i \in 1..Len(text) : i = 1 \/ text[i - 1] = NL}

\* (?m)^\s*(\d{3}\.\d{2}(?:\.\d{2})?)\b : the first line that starts with a dotted id
dominant_section_in_text(text) ==
  LET at == {i \in LineStarts(text) : DottedOf(text[i]) # None}
  IN IF at = {} THEN None ELSE DottedOf(text[CHOOSE i \in at : \A j \in at : i <= j])

\* hybrid_chunks.py works on the snippet, in which line breaks are spaces
text_dominant_section(snippet) ==
  IF snippet # <<>> /\ DottedOf(snippet[1]) # None THEN DottedOf(snippet[1]) ELSE None

MismatchedSection(c, dom, expected_prefix) ==
  \/ expected_prefix # NoPrefix /\ dom # None /\ dom[1] # expected_prefix
  \/ c.section_id # None /\ dom # None /\ dom # c.section_id

filter_mismatched_section_hits(hits, expected_prefix) ==
  SelectSeq(hits, LAMBDA c :
    ~MismatchedSection(c, dominant_section_in_text(c.text), expected_prefix))

\* BM25Okapi scores, abstracted to the number of query terms the chunk text
\* holds: the code uses only the order the scores induce
Bm25Score(qtoks, dtoks) == Cardinality({i \in 1..Len(qtoks) : qtoks[i] \in Range(dtoks)})

\* _bm25_rerank on a non-empty hit list (BM25Okapi([]) divides by zero)
bm25_rerank(q, hits, k) ==
  Take(SortDesc(hits, [i \in 1..Len(hits) |->
                         Bm25Score(tokenize_bm25(q), tokenize_bm25(hits[i].text))]), k)

select_section_hits(hits) ==
  IF hits = <<>> THEN <<>> ELSE Take(hits, Min2(6, Max2(4, Len(hits))))

Pages(c) ==
  IF c.page_end # 0 /\ c.page_end # c.page_start
  THEN <<W("pp."), Num(c.page_start), Num(c.page_end)>>
  ELSE <<W("p."), Num(c.page_start)>>

RECURSIVE ExcerptLines(_, _)
ExcerptLines(hits, idx) ==
  IF hits = <<>> THEN <<>>
  ELSE <<NL, Cite(idx)>> \o Head(hits).heading \o Pages(Head(hits))
       \o Snippet(Head(hits)) \o ExcerptLines(Tail(hits), idx + 1)

\* the excerpt with its entries numbered from 0
excerpt_numbered_from_zero(section_label, hits) ==
  <<W("relevant"), W("excerpts"), W("from"), W("njdot"), W("manuals")>>
  \o ExcerptLines(hits, 0)

\* section_label is a dotted id, or None
build_section_excerpt(section_label, hits) ==
  (IF section_label # None THEN <<Sec(section_label)>>
   ELSE IF hits # <<>> /\ hits[1].section_id # None
        THEN <<Sec(hits[1].section_id)>>
        ELSE <<W("section")>>)
  \o <<W("relevant"), W("excerpts"), W("from"), W("njdot"), W("manuals")>>
  \o ExcerptLines(hits, 1)

\* the first dotted id of the query (\b\d{3}\.\d{2}(?:\.\d{2})?\b)
extract_section_pattern(q) ==
  LET at == {i \in 1..Len(q) : DottedOf(q[i]) # None}
  IN IF at = {} THEN None ELSE DottedOf(q[CHOOSE i \in at : \A j \in at : i <= j])

\* section_id.startswith(pat) on dotted ids
IdStartsWith(s, pat) == Len(s) >= Len(pat) /\ SubSeq(s, 1, Len(pat)) = pat

Relevant(section_pat, q_tokens, c) ==
  \/ section_pat # None /\ c.section_id # None
     /\ IdStartsWith(c.section_id, section_pat)
  \/ /\ q_tokens # {}
     /\ \/ \E tok \in q_tokens : AtomIn(tok, Snippet(c))
        \/ Cardinality(q_tokens \cap tokenize_relevance(Snippet(c))) >= 2

is_relevant_hit(q, c) == Relevant(extract_section_pattern(q), tokenize_relevance(q), c)

WeakMsg ==
  <<W("insufficient"), W("evidence"), W("i"), CouldntTypographic, W("find"), W("a"),
    W("reliable"), W("answer")>>

\* the optional table field of a result
NoTableBlock == [table_uid |-> NoTable, table_label |-> <<>>, page_number |-> 0]

Result(conf, answer, hits, table) ==
  [confidence |-> conf, answer |-> answer, hits |-> hits, table |-> table]

weak_response(hits, q) ==
  IF hits = <<>> \/ ~is_relevant_hit(q, hits[1]) \/ Snippet(hits[1]) = <<>>
  THEN Result("weak", WeakMsg, <<>>, NoTableBlock)
  ELSE Result("weak", <<W("closest"), W("match")>> \o Snippet(hits[1]) \o <<Cite(1)>>,
              Take(hits, 1), NoTableBlock)

EndsWithBracket(answer) == answer # <<>> /\ answer[Len(answer)].t = "cite"

\* answer = snippet if snippet.endswith("]") else snippet + " [1]"
WithCitation(snippet) == IF EndsWithBracket(snippet) THEN snippet ELSE Append(snippet, Cite(1))

FallbackAnswer(snippet) ==
  IF snippet # <<>> THEN WithCitation(snippet)
  ELSE <<W("insufficient"), W("evidence"), W("in"), W("retrieved"), W("sources"), Cite(1)>>

\* faulty variant of _llm_fallback_answer: every hit is returned, not hits[:1]
fallback_all_hits(hits) ==
  IF hits # <<>>
  THEN Result("medium", FallbackAnswer(Snippet(hits[1])), hits, NoTableBlock)
  ELSE Result("low", <<W("insufficient"), W("evidence")>>, <<>>, NoTableBlock)

llm_fallback_answer(hits) ==
  IF hits # <<>>
  THEN Result("medium", FallbackAnswer(Snippet(hits[1])), Take(hits, 1), NoTableBlock)
  ELSE Result("low", <<W("insufficient"), W("evidence")>>, <<>>, NoTableBlock)

InsufficiencyPhrases ==
  {<<CouldntTypographic, W("find")>>, <<W("could"), W("not"), W("find")>>,
   <<W("not"), W("present"), W("in"), W("sources")>>,
   <<W("not"), W("contained"), W("in"), W("sources")>>,
   <<W("insufficient"), W("evidence")>>}

\* faulty variant of _safe_confidence: the label of _llm_fallback_answer for
\* an answer without evidence ("low") is used instead of "weak"
low_confidence(conf, answer) ==
  IF \E ph \in InsufficiencyPhrases : ContainsSeq(answer, ph) THEN "low" ELSE conf

safe_confidence(conf, answer) ==
  IF \E ph \in InsufficiencyPhrases : ContainsSeq(answer, ph) THEN "weak" ELSE conf

(***************************************************************************)
(* Lexical and vector index search (bm25_chunks.py, faiss_chunks.py).      *)
(* Both indexes hold every chunk of the store, in chunk id order.  A hit   *)
(* is the row of its chunk with the score the search gave it.              *)
(***************************************************************************)
\* bm25_chunks.tokenize on one token: [A-Za-z0-9]+(?:[.\-/:][A-Za-z0-9]+)*
\* keeps a dotted id or a table number as one compound word
WordOf(tok) ==
  CASE tok.t = "w" -> IF tok.w \in NonAlnumWords THEN <<>>
                      ELSE IF tok.w = "tab." THEN <<W("tab")>> ELSE <<tok>>
    [] tok.t \in {"sec", "tab"} -> <<tok>>
    [] tok.t \in {"num", "cite"} -> <<Num(tok.n)>>
    [] OTHER -> <<>>

KeptWords(kept) == [i \in 1..Len(kept) |-> WordOf(kept[i])[1]] \o <<>>

tokenize(text) == KeptWords(SelectSeq(text, LAMBDA tok : WordOf(tok) # <<>>))

\* the rows of a set in ascending chunk id order
RECURSIVE IdsAsc(_)
IdsAsc(rows) ==
  IF rows = {} THEN <<>>
  ELSE LET m == CHOOSE c \in rows : \A d \in rows : c.id <= d.id
       IN <<m>> \o IdsAsc(rows \ {m})

Reverse(s) == [i \in 1..Len(s) |-> s[Len(s) + 1 - i]] \o <<>>

\* sort(key=lambda x: x.score, reverse=True)
SortByScore(hits) == SortDesc(hits, [i \in 1..Len(hits) |-> hits[i].score])

\* index.bm25.get_scores, abstracted as Bm25Score: a chunk scores above zero
\* exactly when it holds a query term; meta is the index in chunk id order
get_scores(meta, qtoks) ==
  [i \in 1..Len(meta) |->
     [meta[i] EXCEPT !.score = Bm25Score(qtoks, tokenize(meta[i].text))]] \o <<>>

Allowed(hits, scope) == SelectSeq(hits, LAMBDA h : allowed_by_scope(h, scope))

\* the allowed chunks with a positive score, or else all the allowed chunks
PositiveOrAll(allowed, k) ==
  IF \E i \in 1..Len(allowed) : allowed[i].score > 0
  THEN Take(SelectSeq(allowed, LAMBDA h : h.score > 0), k)
  ELSE Take(allowed, k)

bm25_chunks_search_filtered(store, q, k, scope) ==
  PositiveOrAll(Allowed(SortByScore(get_scores(IdsAsc(store), tokenize(q))), scope), k)

\* the order of the nearest neighbours depends on the embedding model: the
\* model lets it agree with the lexical order or be the reverse index order
VecModes == {"lexical", "reverse"}

Neighbours(scored, vecMode, n) ==
  Take(IF vecMode = "lexical" THEN SortByScore(scored) ELSE Reverse(scored), n)

\* faiss_chunks.py, lines 154-192, on the rows of the index in the order of
\* their similarity to the query: the first min(len(meta), max(k * 8, 50)) of
\* them are fetched, those out of scope are skipped, the loop ends at k hits
search_nearest(ranked, k, scope) ==
  Take(Allowed(Take(ranked, Min2(Len(ranked), Max2(k * 8, 50))), scope), k)

faiss_chunks_search_filtered(store, q, k, scope, vecMode) ==
  search_nearest(Neighbours(get_scores(IdsAsc(store), tokenize(q)), vecMode,
                            Cardinality(store)), k, scope)

(***************************************************************************)
(* Fusion (hybrid_chunks.py).  Scores are kept in millionths, each         *)
(* reciprocal rounded down: 1/(60 + rank) is 1000000 \div (60 + rank).     *)
(***************************************************************************)
Unit == 1000000
RrfK == 60

\* the reciprocal of the rank alone
reciprocal_of_rank(k, rank) == Unit \div rank

Reciprocal(k, rank) == Unit \div (k + rank)

\* the same with ranks counted from 0
contribution_from_zero(lst, key, k) ==
  IF \E i \in 1..Len(lst) : lst[i] = key
  THEN Reciprocal(k, (CHOOSE i \in 1..Len(lst) : lst[i] = key) - 1)
  ELSE 0

\* what list lst adds to the fused score of key
Contribution(lst, key, k) ==
  IF \E i \in 1..Len(lst) : lst[i] = key
  THEN Reciprocal(k, CHOOSE i \in 1..Len(lst) : lst[i] = key)
  ELSE 0

RECURSIVE SumContributions(_, _, _)
SumContributions(ranked_lists, key, k) ==
  IF ranked_lists = <<>> THEN 0
  ELSE Contribution(Head(ranked_lists), key, k) + SumContributions(Tail(ranked_lists), key, k)

RECURSIVE Concat(_)
Concat(lists) == IF lists = <<>> THEN <<>> ELSE Head(lists) \o Concat(Tail(lists))

\* the fused dict: its keys in insertion order, and the score of each key
Fused(keys, ranked_lists, k) ==
  [keys |-> keys,
   score |-> [i \in 1..Len(keys) |-> SumContributions(ranked_lists, keys[i], k)] \o <<>>]

reciprocal_rank_fusion(ranked_lists, k) == Fused(Dedup(Concat(ranked_lists)), ranked_lists, k)

StrongScore == 35000
MediumScore == 20000

\* the level by the score alone
confidence_by_score(score, overlap) ==
  IF score >= StrongScore THEN "strong"
  ELSE IF score >= MediumScore THEN "medium"
  ELSE "weak"

compute_confidence(score, overlap) ==
  IF score >= StrongScore /\ overlap >= 1 THEN "strong"
  ELSE IF score >= MediumScore THEN "medium"
  ELSE "weak"

\* [h.chunk_id for h in hits]
Keys(hits) == [i \in 1..Len(hits) |-> hits[i].id] \o <<>>

\* b or v: the first hit of the pool that has the chunk id
Ref(pool, cid) ==
  pool[CHOOSE i \in 1..Len(pool) : pool[i].id = cid /\ \A j \in 1..(i - 1) : pool[j].id # cid]

\* the hybrid hits of the fused keys, best fused score first
FusedResults(fused, pool, n) ==
  Take(SortByScore([i \in 1..Len(fused.keys) |->
                      [Ref(pool, fused.keys[i]) EXCEPT !.score = fused.score[i]]]), n)

\* sum(ch.isdigit() for ch in s)
RECURSIVE DigitCount(_)
DigitCount(atoms) ==
  IF atoms = <<>> THEN 0
  ELSE (IF Head(atoms).t = "p" THEN Head(atoms).id[1] ELSE 0) + DigitCount(Tail(atoms))

DominantMismatch(h, dom) == h.section_id # None /\ dom # None /\ dom # h.section_id

Preferred(h, exact_section, section_prefix) ==
  IF exact_section # None THEN h.section_id = exact_section
  ELSE IF section_prefix # NoPrefix
       THEN h.section_id # None /\ h.section_id[1] = section_prefix
       ELSE FALSE

PreferredFirst(cleaned, exact_section, section_prefix) ==
  SelectSeq(cleaned, LAMBDA h : Preferred(h, exact_section, section_prefix))
  \o SelectSeq(cleaned, LAMBDA h : ~Preferred(h, exact_section, section_prefix))

\* the section-intent cleanup of hybrid_chunks_search
SectionCleanup(q, results) ==
  PreferredFirst(
    SelectSeq(results, LAMBDA h :
      /\ h.chunk_kind \notin {"toc", "front_matter"}
      /\ ~DominantMismatch(h, text_dominant_section(Snippet(h)))),
    extract_section_pattern(q), SectionWordPrefix(q))

\* \btable\s*([0-9]{3}\.[0-9]{2}-[0-9]+)\b : two-part table numbers only
TwoPart(table_token) ==
  IF table_token # NoToken /\ Len(table_token.id) = 2 THEN table_token ELSE NoToken

TwoPartTableToken(q) == TwoPart(extract_table_token(q))

Bonus(has_uid, snip, digits, table_token) ==
  (IF ContainsSeq(snip, <<W("table"), table_token>>)
   THEN 150000
        + (IF \E w \in {"percent", "percentage", "sieve"} : HasWord(snip, w)
           THEN 80000 ELSE 0)
        + (IF digits >= 25 THEN 50000 ELSE 0)
   ELSE 0)
  - (IF /\ ~has_uid
        /\ ContainsSeq(snip, <<W("specified"), W("table"), table_token>>)
        /\ digits < 10
     THEN 80000 ELSE 0)

table_token_bonus(h, table_token) ==
  Bonus(h.table_uid # NoTable, Snippet(h), DigitCount(Alnum(Snippet(h))), table_token)

WithBonus(results, table_token) ==
  IF table_token = NoToken THEN results
  ELSE SortByScore([i \in 1..Len(results) |->
         [results[i] EXCEPT !.score = @ + table_token_bonus(results[i], table_token)]])

\* "table" in q or "chart" in q or "row" in q or "values" in q or "limit" in q
GroupBoostIntent(q) ==
  \E i \in 1..Len(q) :
    q[i] \in {W("table"), W("tables"), W("chart"), W("row"), W("rows"), W("values"),
              W("limit"), W("limits")}

RowsOfTable(hits, uid) == SelectSeq(hits, LAMBDA h : h.table_uid = uid)

\* the table uids of the hits, in the order of their first hit
TableUids(hits) ==
  Dedup(SelectSeq([i \in 1..Len(hits) |-> hits[i].table_uid], LAMBDA u : u # NoTable))

MaxScore(hits) ==
  CHOOSE m \in {hits[i].score : i \in 1..Len(hits)} : \A i \in 1..Len(hits) : hits[i].score <= m

\* (len(rows), max score) of ru is above that of rv
Better(ru, rv) ==
  \/ Len(ru) > Len(rv)
  \/ Len(ru) = Len(rv) /\ MaxScore(ru) > MaxScore(rv)

\* max() keeps the first of the largest
BestUid(results, eligible) ==
  eligible[CHOOSE i \in 1..Len(eligible) :
             /\ \A j \in 1..Len(eligible) :
                  ~Better(RowsOfTable(results, eligible[j]), RowsOfTable(results, eligible[i]))
             /\ \A j \in 1..(i - 1) :
                  Better(RowsOfTable(results, eligible[i]), RowsOfTable(results, eligible[j]))]

Promote(results, best_uid) ==
  SortByScore(Take(SortByScore(RowsOfTable(results, best_uid)), 6)
              \o SelectSeq(results, LAMBDA h : h.table_uid # best_uid))

PromoteBest(results, eligible) ==
  IF eligible = <<>> THEN results ELSE Promote(results, BestUid(results, eligible))

table_group_boost(results, q) ==
  IF results = <<>> \/ ~GroupBoostIntent(q) THEN results
  ELSE PromoteBest(results,
         SelectSeq(TableUids(results), LAMBDA u : Len(RowsOfTable(results, u)) >= 2))

\* the first row of the rows that has their highest score
BestOfTable(rows, top) ==
  rows[CHOOSE i \in 1..Len(rows) :
         rows[i].score = top /\ \A j \in 1..(i - 1) : rows[j].score < top]

BestByTable(hits, uids) ==
  [i \in 1..Len(uids) |->
     BestOfTable(RowsOfTable(hits, uids[i]), MaxScore(RowsOfTable(hits, uids[i])))]

collapse_tables(hits, k) ==
  Take(SortByScore(BestByTable(hits, TableUids(hits))
                   \o SelectSeq(hits, LAMBDA h : h.table_uid = NoTable)), k)

RowCountBoost(nrows) ==
  IF nrows >= 6 THEN 80000 ELSE IF nrows <= 2 THEN 0 - 30000 ELSE 0

BoostedScore(store, h, target_section) ==
  h.score
  + (IF h.table_uid = NoTable THEN 0
     ELSE RowCountBoost(TableRowsOf(store, h.table_uid))
          + (IF HasWord(Snippet(h), "table") \/ HasWord(Snippet(h), "tables")
             THEN 30000 ELSE 0)
          + (IF target_section # None /\ h.section_id = target_section
             THEN 120000 ELSE 0))

\* boost_table_hits_for_table_queries orders the hits by a boosted value and
\* leaves their scores as they are
boost_table_hits_for_table_queries(store, q, hits) ==
  SortDesc(hits, [i \in 1..Len(hits) |->
                    BoostedScore(store, hits[i], extract_section_pattern(q))])

\* \b(table|tbl|tab\.)\b
is_table_query(q) == \E i \in 1..Len(q) : q[i] \in {W("table"), W("tbl"), W("tab.")}

PoolK(k) == Max2(60, k * 12)

\* the table intent shaping and the final sort
TableShaping(store, q, grouped) ==
  SortByScore(IF is_table_query(q)
              THEN boost_table_hits_for_table_queries(store, q, grouped)
              ELSE grouped)

\* hybrid_chunks_search from the fused pool on
Shaped(store, q, results, n) ==
  TableShaping(store, q,
    collapse_tables(
      table_group_boost(
        WithBonus(IF is_section_intent(q) THEN SectionCleanup(q, results) ELSE results,
                  TwoPartTableToken(q)),
        q),
      n))

HybridResult(results, bm25_keys, vec_keys, k) ==
  [hits |-> Take(results, k),
   conf |-> IF results # <<>>
            THEN compute_confidence(
                   results[1].score,
                   Cardinality(Range(Take(bm25_keys, 10)) \cap Range(Take(vec_keys, 10))))
            ELSE "weak"]

Hybrid(store, q, k, bm25_hits, vec_hits) ==
  HybridResult(
    Shaped(store, q,
           FusedResults(reciprocal_rank_fusion(<<Keys(bm25_hits), Keys(vec_hits)>>, RrfK),
                        bm25_hits \o vec_hits, Max2(PoolK(k), 120)),
           Max2(PoolK(k), 120)),
    Keys(bm25_hits), Keys(vec_hits), k)

hybrid_chunks_search(store, q, k, scope, vecMode) ==
  Hybrid(store, q, k,
         bm25_chunks_search_filtered(store, q, PoolK(k), scope),
         faiss_chunks_search_filtered(store, q, PoolK(k), scope, vecMode))

(***************************************************************************)
(* Answer synthesis helpers of ask.py.                                     *)
(***************************************************************************)
\* "Provide materials as specified in" in s, or three dot leaders
looks_like_list_table_snippet(snippet) ==
  \/ ContainsSeq(snippet, <<W("provide"), W("materials"), W("as"), W("specified"), W("in")>>)
  \/ Cardinality({i \in 1..Len(snippet) : snippet[i] = W("...")}) >= 3

is_materials_heading(c) == HasWord(c.heading, "materials")

NumericIntentWords == {"minimum", "limit", "limits", "percent", "percentage", "days", "day"}

HasDigit(text) == \E a \in Range(Alnum(text)) : a.t = "p"

OverlapScore(q, tokens, text) ==
  IF tokens = {} THEN 0
  ELSE Cardinality({t \in tokens : AtomIn(t, text)})
       + (IF /\ (\E w \in NumericIntentWords : HasWord(q, w)) \/ HasDigit(q)
             /\ HasDigit(text) \/ HasWord(text, "percent")
          THEN 2 ELSE 0)
       + (IF /\ HasWord(q, "liability") \/ HasWord(q, "insurance")
             /\ ContainsSeq(text, <<W("general"), W("liability")>>)
          THEN 3 ELSE 0)

keyword_overlap_score(q, c) == OverlapScore(q, tokenize_relevance(q), c.heading \o Snippet(c))

InterestTriggers ==
  {<<W("interest")>>, <<W("prime"), W("rate")>>, <<W("plus"), Num(1), W("percent")>>,
   <<W("accrue")>>, <<W("tenth"), W("day")>>, <<W("withholding"), W("payment")>>}

is_prompt_payment_interest_intent(q) == \E tr \in InterestTriggers : ContainsSeq(q, tr)

StatuteKeys ==
  {<<W("prime"), W("rate")>>, <<W("plus"), Num(1), W("percent")>>, <<W("tenth"), W("day")>>,
   <<W("interest"), W("begins"), W("to"), W("accrue")>>}

\* heading + snippet + text of a hit
HitText(c) == c.heading \o Snippet(c) \o c.text

statute_hit_score(c) == Cardinality({key \in StatuteKeys : ContainsSeq(HitText(c), key)})

NoDays == -1

\* not paid within N days | within N days after receipt | within N days of receipt
extract_prompt_payment_days(text) ==
  LET Hit(i, pre, post) ==
        /\ i > Len(pre) /\ i + 1 + Len(post) <= Len(text)
        /\ SubSeq(text, i - Len(pre), i - 1) = pre
        /\ text[i].t = "num" /\ text[i + 1] = W("days")
        /\ SubSeq(text, i + 2, i + 1 + Len(post)) = post
      At(pre, post) == {i \in 1..Len(text) : Hit(i, pre, post)}
      First(pre, post) == text[CHOOSE i \in At(pre, post) : \A j \in At(pre, post) : i <= j].n
  IN IF At(<<W("not"), W("paid"), W("within")>>, <<>>) # {}
     THEN First(<<W("not"), W("paid"), W("within")>>, <<>>)
     ELSE IF At(<<W("within")>>, <<W("after"), W("receipt")>>) # {}
     THEN First(<<W("within")>>, <<W("after"), W("receipt")>>)
     ELSE IF At(<<W("within")>>, <<W("of"), W("receipt")>>) # {}
     THEN First(<<W("within")>>, <<W("of"), W("receipt")>>)
     ELSE NoDays

PaymentWords == {W("receipt"), W("receiv"), W("payment"), W("paid")}

\* \b(\d+)\s+days.{0,120}\b(receipt|receiv|payment|paid)\b, or the words first:
\* both on one line of the text
LineHasPaymentDays(line) ==
  \E i \in 1..(Len(line) - 1) :
    /\ line[i].t = "num" /\ line[i + 1] = W("days")
    /\ \E j \in 1..Len(line) : line[j] \in PaymentWords /\ (j > i + 1 \/ j < i)

\* the lines of _format_sources_compact for the hit at position i
SourceBlock(c, i) ==
  <<<<W("source"), Num(i)>>,
    <<W("section")>> \o (IF c.section_id # None THEN <<Sec(c.section_id)>>
                         ELSE <<>>),
    <<W("pages"), Num(c.page_start), Num(c.page_end)>>,
    <<W("excerpt")>>,
    Snippet(c)>>

\* _format_sources_compact: the source block as a sequence of lines
RECURSIVE SourceLines(_, _)
SourceLines(hits, i) ==
  IF hits = <<>> THEN <<>>
  ELSE SourceBlock(Head(hits), i) \o SourceLines(Tail(hits), i + 1)

format_sources_compact(hits) == SourceLines(hits, 1)

has_payment_days_phrase(lines) == \E i \in 1..Len(lines) : LineHasPaymentDays(lines[i])

\* set(re.findall(r"\b\d+\b", answer))
nums_in_answer(answer) == {a \in Range(Alnum(answer)) : a.t = "p"}

\* any(n in src_blob for n in nums_in_answer)
AnyNumInSources(answer, lines) ==
  \E n \in nums_in_answer(answer) : AtomIn(n, Concat(lines))

(***************************************************************************)
(* Post-processing of a generated answer.                                  *)
(***************************************************************************)
NjdotManual == <<W("the"), W("njdot"), W("manual")>>

\* "in DDD.DD[.DD]" becomes "in the NJDOT manual" (this covers "specified in")
RECURSIVE ReplaceInSection(_)
ReplaceInSection(a) ==
  IF Len(a) < 2 THEN a
  ELSE IF a[1] = W("in") /\ a[2].t = "sec" /\ Len(a[2].id) >= 2
       THEN <<W("in")>> \o NjdotManual \o ReplaceInSection(Drop(a, 2))
       ELSE <<a[1]>> \o ReplaceInSection(Tail(a))

make_answer_user_friendly(answer) ==
  LET stripped == IF Len(answer) >= 2 /\ answer[1].t = "sec" THEN Tail(answer) ELSE answer
  IN ReplaceInSection(stripped)

\* drops every occurrence of a two-token callout: a word of words followed by
\* a token of one of the kinds
RECURSIVE DropPairs(_, _, _)
DropPairs(a, words, kinds) ==
  IF a = <<>> THEN <<>>
  ELSE IF Len(a) >= 2 /\ a[1].t = "w" /\ a[1].w \in words /\ a[2].t \in kinds
       THEN DropPairs(Drop(a, 2), words, kinds)
       ELSE <<a[1]>> \o DropPairs(Tail(a), words, kinds)

strip_answer_metadata(answer, q) ==
  LET no_cites == SelectSeq(answer, LAMBDA tok : tok.t # "cite")
      no_sources == DropPairs(no_cites, {"source"}, {"num"})
  IN IF question_asks_for_section_or_page(q) THEN no_sources
     ELSE DropPairs(DropPairs(no_sources, {"section"}, {"sec"}), {"page"}, {"num"})

RECURSIVE DropPhrase(_, _)
DropPhrase(a, ph) ==
  IF Len(a) < Len(ph) THEN a
  ELSE IF SubSeq(a, 1, Len(ph)) = ph THEN DropPhrase(Drop(a, Len(ph)), ph)
       ELSE <<a[1]>> \o DropPhrase(Tail(a), ph)

polish_answer_text(answer) ==
  DropPhrase(DropPhrase(answer, <<W("according"), W("to"), W("the"), W("sources")>>),
             <<W("provided"), W("sources")>>)

(***************************************************************************)
(* The generation stage of _ask_question_inner (lines 1671-1762).  The     *)
(* outcome of the generation service is an input: the client cannot be     *)
(* built, the call fails, or the call returns one of LlmAnswers.           *)
(***************************************************************************)
LlmAnswers ==
  {<<W("provide"), W("conduit"), W("materials"), W("as"), W("specified"), W("in"),
     Sec(<<701, 2>>), Cite(1)>>,
   <<W("insufficient"), W("evidence")>>,
   <<W("i"), Couldnt, W("find"), W("this"), W("in"), W("the"), W("sources")>>,
   <<W("paid"), W("within"), Num(10), W("days")>>,
   <<W("paid"), W("within"), Num(10), W("days"), W("or"), Num(45), W("days")>>,
   <<W("paid"), W("within"), Num(45), W("days")>>,
   <<>>}

LlmOutcomes ==
  {[kind |-> "client_error", answer |-> <<>>], [kind |-> "chat_error", answer |-> <<>>]}
  \cup {[kind |-> "answer", answer |-> a] : a \in LlmAnswers}

LowValueKinds == {"table_row", "toc", "front_matter"}

StatuteAnswer(days) ==
  <<W("interest"), W("begins"), W("to"), W("accrue"), W("if"), W("the"), W("subcontractor"),
    W("is"), W("not"), W("paid"), W("within"), Num(days), W("days"), W("after"),
    W("receipt"), W("of"), W("payment")>>

Outcome(res, calls, path) == [res |-> res, calls |-> calls, path |-> path]

NotLowValue(hits) == SelectSeq(hits, LAMBDA c : c.chunk_kind \notin LowValueKinds)

\* scored.sort(key=lambda t: (-t[1], t[0]))
Ranked(q, preferred) ==
  SortDesc(preferred, [i \in 1..Len(preferred) |-> keyword_overlap_score(q, preferred[i])])

StatuteStrong(ranked) ==
  SelectSeq(SortDesc(ranked, [i \in 1..Len(ranked) |-> statute_hit_score(ranked[i])]),
            LAMBDA c : statute_hit_score(c) >= 2)

StatuteFirst(ranked, statute_strong) ==
  IF statute_strong # <<>>
  THEN statute_strong \o SelectSeq(ranked, LAMBDA c : c \notin Range(statute_strong))
  ELSE ranked

Reranked(q, ranked) ==
  IF is_prompt_payment_interest_intent(q) THEN StatuteFirst(ranked, StatuteStrong(ranked))
  ELSE ranked

\* top_hits is filled up to four hits from the hit list
Padded(top, hits) ==
  IF Len(top) < 4 THEN Take(Dedup(top \o hits), Max2(4, Len(top))) ELSE top

\* the hits whose excerpts make up the source block
top_hits(q, hits) == Padded(Take(Reranked(q, Ranked(q, NotLowValue(hits))), 6), hits)

\* the days of the statute answer, or NoDays when the answer is generated
StatuteDays(q, strong) ==
  IF is_prompt_payment_interest_intent(q) /\ strong # <<>>
  THEN extract_prompt_payment_days(strong[1].text \o Snippet(strong[1]))
  ELSE NoDays

\* lines 1757-1762
Finished(q, hits, conf, answer, calls, path) ==
  Outcome(Result(safe_confidence(conf, answer),
                 polish_answer_text(strip_answer_metadata(make_answer_user_friendly(answer), q)),
                 hits, NoTableBlock),
          calls, path)

\* lines 1738-1743: the numeric guard
Guarded(q, hits, conf, answer, sources_text, calls, path) ==
  IF /\ asks_about_days(q)
     /\ nums_in_answer(answer) # {}
     /\ ~AnyNumInSources(answer, sources_text)
  THEN Outcome(llm_fallback_answer(hits), calls, "numeric_guard")
  ELSE Finished(q, hits, conf, answer, calls, path)

\* lines 1710-1737: the statute answer, or else the generation call
Answered(q, hits, conf, llm, sources_text, days) ==
  IF days # NoDays
  THEN Guarded(q, hits, conf, StatuteAnswer(days), sources_text, 0, "statute")
  ELSE IF llm.kind = "chat_error"
  THEN Outcome(llm_fallback_answer(hits), 1, "llm_fallback")
  ELSE Guarded(q, hits, conf, llm.answer, sources_text, 1, "generated")

\* lines 1703-1709: the time-limit gate
Gated(q, hits, conf, llm, sources_text, days) ==
  IF is_time_limit_question(q) /\ ~has_payment_days_phrase(sources_text)
  THEN Outcome(Result("weak", <<W("insufficient"), W("evidence")>>, hits, NoTableBlock),
               0, "time_limit_gate")
  ELSE Answered(q, hits, conf, llm, sources_text, days)

\* lines 1700-1755: get_llm() and what follows it
Synthesized(q, hits, conf, llm, top) ==
  IF llm.kind = "client_error"
  THEN Outcome(llm_fallback_answer(hits), 0, "llm_fallback")
  ELSE Gated(q, hits, conf, llm, format_sources_compact(top),
             StatuteDays(q, SelectSeq(top, LAMBDA c : statute_hit_score(c) >= 2)))

generate(q, hits, conf, llm) ==
  IF NotLowValue(hits) = <<>> THEN Outcome(weak_response(hits, q), 0, "no_preferred")
  ELSE Synthesized(q, hits, conf, llm, top_hits(q, hits))

(***************************************************************************)
(* The deterministic paths of _ask_question_inner, each as the function    *)
(* from what the path reads to what it returns.  NoResult says that the    *)
(* path declined and the pipeline goes on.                                 *)
(***************************************************************************)
NoResult == Result("none", <<>>, <<>>, NoTableBlock)

SourcesOnlyMsg ==
  <<W("sources"), W("only"), W("see"), W("citations"), W("on"), W("the"), W("right")>>
SeeCitations == <<W("see"), W("the"), W("citations"), W("panel")>>
SectionNotFoundMsg ==
  <<W("insufficient"), W("evidence"), W("i"), CouldntTypographic, W("find"), W("that"),
    W("section")>>

\* the first table number that follows the word "table" in text
TableNumberIn(text) ==
  LET at == {i \in 1..(Len(text) - 1) : text[i] = W("table") /\ text[i + 1].t = "tab"}
  IN IF at = {} THEN NoToken ELSE text[(CHOOSE i \in at : \A j \in at : i <= j) + 1]

TableTitle(number) == IF number # NoToken THEN <<W("table"), number>> ELSE <<W("table")>>

FirstNumber(found) == IF found # <<>> THEN found[1] ELSE NoToken

\* _build_table_display_title: the stored label "Table (p. N) #i" is junk, and
\* no text of the model puts a title after the table number
build_table_display_title(table_token, text_candidates) ==
  TableTitle(IF table_token # NoToken THEN table_token
             ELSE FirstNumber(SelectSeq([i \in 1..Len(text_candidates) |->
                                           TableNumberIn(text_candidates[i])],
                                        LAMBDA n : n # NoToken)))

\* meta.page_number
TablePage(store, uid) ==
  (CHOOSE c \in store : c.chunk_kind = "table_row" /\ c.table_uid = uid).page_start

TableBlock(store, uid, label, conf, result_hits) ==
  Result(conf, Append(label, NL), result_hits,
         [table_uid |-> uid, table_label |-> label, page_number |-> TablePage(store, uid)])

\* the table-block result for the table uid, labelled from the hit c
TableResult(store, conf, uid, c, table_token, result_hits) ==
  TableBlock(store, uid,
             build_table_display_title(table_token, <<c.heading, Snippet(c), c.text>>),
             conf, result_hits)

\* next((h.table_uid for h in hits if h.table_uid), None)
FirstTableUid(hits) ==
  IF \E i \in 1..Len(hits) : hits[i].table_uid # NoTable
  THEN hits[CHOOSE i \in 1..Len(hits) :
              hits[i].table_uid # NoTable /\ \A j \in 1..(i - 1) : hits[j].table_uid = NoTable]
         .table_uid
  ELSE NoTable

TableKnown(store, uid, min_rows) ==
  uid # NoTable /\ table_has_enough_rows(store, uid, min_rows) /\ get_table_meta(store, uid)

Prelookup(store, table_token, token_hits) ==
  IF token_hits # <<>> /\ TableKnown(store, FirstTableUid(token_hits), 2)
  THEN TableResult(store, "strong", FirstTableUid(token_hits), token_hits[1], table_token,
                   <<token_hits[1]>>)
  ELSE NoResult

\* lines 1250-1296
table_prelookup(store, q, scope, mode) ==
  IF explicit_table(q) /\ mode = "answer"
  THEN Prelookup(store, extract_table_token(q),
                 db_fetch_table_token_hits(store, extract_table_token(q), scope, 25))
  ELSE NoResult

looks_like_true_section_start(text, section_id) ==
  \E i \in LineStarts(text) :
    /\ DottedOf(text[i]) # None
    /\ \/ DottedOf(text[i]) = section_id
       \/ i = 1 /\ IdStartsWith(DottedOf(text[i]), section_id)

SanitizeOk(c, section_id) ==
  \/ /\ c.heading # <<>>
     /\ DottedOf(c.heading[1]) # None
     /\ IdStartsWith(DottedOf(c.heading[1]), section_id)
  \/ looks_like_true_section_start(c.text, section_id)

sanitize_exact_section_hits(section_id, hits) ==
  SelectSeq(hits, LAMBDA c : SanitizeOk(c, section_id))
  \o SelectSeq(hits, LAMBDA c : ~SanitizeOk(c, section_id))

\* lines 1305-1317: fewer than four hits are merged with the section's children
Expanded(exact_hits, expanded) ==
  IF Len(exact_hits) < 4
  THEN OrderedRows(Range(exact_hits) \cup Range(expanded), Len(exact_hits) + Len(expanded))
  ELSE exact_hits

\* lines 1319-1346
ExactResult(q, exact, mode, section_hits) ==
  IF mode = "sources_only"
  THEN Result("strong", SourcesOnlyMsg, section_hits, NoTableBlock)
  ELSE IF is_bare_section_id_query(q)
  THEN Result("strong", SeeCitations \o <<W("for"), W("section"), Sec(exact)>>,
              section_hits, NoTableBlock)
  ELSE Result("strong", build_section_excerpt(exact, section_hits), section_hits,
              NoTableBlock)

ExactFound(store, q, exact, scope, k, mode, exact_hits) ==
  IF exact_hits = <<>> THEN NoResult
  ELSE ExactResult(q, exact, mode,
         select_section_hits(
           Expanded(exact_hits, db_fetch_exact_or_children(store, exact, scope, Max2(k, 40)))))

ExactLookup(store, q, exact, scope, k, mode) ==
  IF exact = None THEN NoResult
  ELSE ExactFound(store, q, exact, scope, k, mode,
         sanitize_exact_section_hits(exact,
           db_fetch_exact_section(store, exact, scope, Max2(k, 12))))

\* lines 1300-1346
exact_section(store, q, scope, k, mode) ==
  ExactLookup(store, q, extract_exact_section_id(q), scope, k, mode)

\* the section-prefix lookup applies: lines 1350-1351
PrefixLookupApplies(q) ==
  extract_section_prefix(q) # NoPrefix /\ extract_exact_section_id(q) = None
  /\ is_section_intent(q)

prefix_pool(store, q, scope, k) ==
  db_fetch_prefix_sections(store, extract_section_prefix(q), scope, Max2(300, k * 40))

\* the sections forced into the result: P.01 and P.02 when the query has
\* "section P"
MustOf(prefix) == IF prefix # NoPrefix THEN {<<prefix, 1>>, <<prefix, 2>>} ELSE {}

must_sections(q) == MustOf(SectionWordPrefix(q))

\* lines 1368-1377
Forced(db_hits, reranked, must, k) ==
  IF must # {}
  THEN Take(Dedup(SelectSeq(db_hits, LAMBDA c : c.section_id \in must) \o reranked), k)
  ELSE reranked

\* lines 1379-1389
PaddedTo(hits, db_hits, k) ==
  IF Len(hits) < 4 THEN Take(Dedup(hits \o db_hits), Max2(k, 4)) ELSE hits

\* lines 1391-1392
PrefixConf(hits, prefix) ==
  IF hits # <<>> /\ hits[1].section_id # None /\ hits[1].section_id[1] = prefix
  THEN "strong" ELSE "medium"

Fetched(hits, prefix) == [raised |-> FALSE, hits |-> hits, conf |-> PrefixConf(hits, prefix)]

\* lines 1359-1392; _bm25_rerank raises on an empty hit list
Fallback(q, db_hits, prefix, k) ==
  IF db_hits = <<>> THEN [raised |-> TRUE, hits |-> <<>>, conf |-> "none"]
  ELSE Fetched(PaddedTo(Forced(db_hits, bm25_rerank(q, db_hits, k), must_sections(q), k),
                        db_hits, k),
               prefix)

\* lines 1353-1392 for a non-empty pool
section_prefix_fallback(store, q, scope, k) ==
  Fallback(q,
           filter_mismatched_section_hits(prefix_pool(store, q, scope, k),
                                          extract_section_prefix(q)),
           extract_section_prefix(q), k)

\* lines 1433-1436: table rows are dropped unless the query has table intent
WithoutTableRows(q, hits) ==
  IF looks_like_table_query(q) THEN hits
  ELSE SelectSeq(hits, LAMBDA c : c.chunk_kind # "table_row")

\* lines 1438-1447: the low-value preference
LowValueLast(preferred, low_value, k) ==
  IF preferred # <<>>
  THEN IF Len(preferred) >= k THEN Take(preferred, k) \o low_value
       ELSE preferred \o low_value
  ELSE low_value

PreferNotLowValue(q, k, kept) ==
  IF ~looks_like_table_query(q) /\ ~is_section_intent(q)
  THEN LowValueLast(NotLowValue(kept),
                    SelectSeq(kept, LAMBDA c : c.chunk_kind \in LowValueKinds), k)
  ELSE kept

\* the hits as they stand after the table_row drop and the low-value
\* preference (lines 1433-1447)
preferred_hits(q, k, hits) == PreferNotLowValue(q, k, WithoutTableRows(q, hits))

SectionLabel(q) ==
  IF extract_exact_section_id(q) # None THEN extract_exact_section_id(q)
  ELSE IF extract_section_prefix(q) # NoPrefix THEN <<extract_section_prefix(q)>>
  ELSE None

\* lines 1450-1466
SectionExcerpt(q, conf, kept, merged_hits) ==
  IF kept = <<>> THEN Result("weak", SectionNotFoundMsg, <<>>, NoTableBlock)
  ELSE Result(conf, build_section_excerpt(SectionLabel(q), merged_hits), merged_hits,
              NoTableBlock)

SectionIntent(q, conf, kept) == SectionExcerpt(q, conf, kept, select_section_hits(kept))

\* faulty variant of route: the mode of the request is not looked at
route_any_mode(q, k, mode, hits, conf) ==
  IF is_bare_section_id_query(q)
  THEN Result(conf, SeeCitations \o <<W("for"), W("section"), q[1]>>, hits, NoTableBlock)
  ELSE IF question_asks_for_section_or_page(q)
  THEN Result(conf, SeeCitations, hits, NoTableBlock)
  ELSE IF is_section_intent(q) /\ ~looks_like_table_query(q)
  THEN SectionIntent(q, conf, preferred_hits(q, k, hits))
  ELSE NoResult

\* lines 1400-1466: what is returned right after retrieval, if anything
route(q, k, mode, hits, conf) ==
  IF mode = "sources_only" THEN Result(conf, SourcesOnlyMsg, hits, NoTableBlock)
  ELSE IF is_bare_section_id_query(q)
  THEN Result(conf, SeeCitations \o <<W("for"), W("section"), q[1]>>, hits, NoTableBlock)
  ELSE IF question_asks_for_section_or_page(q)
  THEN Result(conf, SeeCitations, hits, NoTableBlock)
  ELSE IF is_section_intent(q) /\ ~looks_like_table_query(q)
  THEN SectionIntent(q, conf, preferred_hits(q, k, hits))
  ELSE NoResult

\* _top_table_block: the rows of the table with the most hits
MostHits(table_hits, uids) ==
  uids[CHOOSE i \in 1..Len(uids) :
         /\ \A j \in 1..Len(uids) :
              Len(RowsOfTable(table_hits, uids[j])) <= Len(RowsOfTable(table_hits, uids[i]))
         /\ \A j \in 1..(i - 1) :
              Len(RowsOfTable(table_hits, uids[j])) < Len(RowsOfTable(table_hits, uids[i]))]

TopRows(table_hits) ==
  IF table_hits = <<>> THEN <<>>
  ELSE Take(RowsOfTable(table_hits, MostHits(table_hits, TableUids(table_hits))), 8)

top_table_rows(hits) == TopRows(SelectSeq(hits, LAMBDA c : c.table_uid # NoTable))

\* looks_like_real_table_chunk: the hits that hold "table <token>" and at
\* least 25 digits
real_table_chunk(table_token, hits) ==
  SelectSeq(hits, LAMBDA c :
    /\ ContainsSeq(Snippet(c), <<W("table"), table_token>>)
    /\ DigitCount(Alnum(Snippet(c))) >= 25)

\* the hits that name the table: token_only in heading + snippet + text
TokenMatches(table_token, hits) ==
  SelectSeq(hits, LAMBDA c : TableTokenIn(table_token, HitText(c)))

TokenSnippet(table_token, snippet) ==
  IF TableTokenIn(table_token, snippet) THEN snippet
  ELSE <<W("table"), table_token>> \o snippet

\* lines 1537-1548
TokenAnswer(q, conf, table_token, matches) ==
  IF Snippet(matches[1]) # <<>>
  THEN Result(conf, WithCitation(TokenSnippet(table_token, Snippet(matches[1]))),
              <<matches[1]>>, NoTableBlock)
  ELSE weak_response(<<>>, q)

\* lines 1495-1549
TokenTable(store, q, conf, table_token, matches) ==
  IF matches = <<>> THEN weak_response(<<>>, q)
  ELSE IF TableKnown(store, FirstTableUid(matches), 2)
  THEN TableResult(store, conf, FirstTableUid(matches), matches[1], table_token,
                   <<matches[1]>>)
  ELSE TokenAnswer(q, conf, table_token, matches)

\* lines 1468-1549: a table number in the query
table_token_path(store, q, hits, conf) ==
  TokenTable(store, q, conf, extract_table_token(q),
             TokenMatches(extract_table_token(q), hits))

\* lines 1635-1669: the rows of the table with the most hits
TopTableBlock(store, q, conf, table_rows) ==
  IF /\ table_rows # <<>> /\ looks_like_table_query(q)
     /\ get_table_meta(store, table_rows[1].table_uid)
  THEN TableResult(store, conf, table_rows[1].table_uid, table_rows[1], NoToken, table_rows)
  ELSE NoResult

\* lines 1604-1633: the passthrough answers
Passthrough(store, q, hits, conf, best) ==
  IF best # <<>>
  THEN Result(conf, WithCitation(Snippet(best[1])), <<best[1]>>, NoTableBlock)
  ELSE IF is_materials_heading(hits[1]) /\ looks_like_list_table_snippet(Snippet(hits[1]))
  THEN Result(conf, WithCitation(Snippet(hits[1])), Take(hits, 1), NoTableBlock)
  ELSE TopTableBlock(store, q, conf, top_table_rows(hits))

\* lines 1468-1669: the paths between the section excerpt and generation
deterministic(store, q, hits, conf) ==
  IF extract_table_token(q) # NoToken THEN table_token_path(store, q, hits, conf)
  ELSE IF conf = "weak" \/ hits = <<>> THEN weak_response(hits, q)
  ELSE IF looks_like_table_query(q) /\ TableKnown(store, hits[1].table_uid, 2)
  THEN TableResult(store, "strong", hits[1].table_uid, hits[1], NoToken, Take(hits, 1))
  ELSE Passthrough(store, q, hits, conf,
                   IF TwoPartTableToken(q) # NoToken
                   THEN real_table_chunk(TwoPartTableToken(q), hits) ELSE <<>>)

(***************************************************************************)
(* The requests of the model.                                              *)
(***************************************************************************)
QBareExact == <<Sec(<<701, 2, 1>>)>>
QExact == <<Sec(<<701, 2>>), W("materials")>>
QSection == <<W("what"), W("materials"), W("are"), W("required"), W("for"), W("section"),
              Sec(<<701>>)>>
QBarePrefix == <<Sec(<<701>>)>>
QSectionTable == <<W("section"), Sec(<<701>>), W("table")>>
QTable3 == <<W("table"), Tab(<<701, 2, 1>>, 1)>>
QTable2 == <<W("table"), Tab(<<701, 1>>, 1)>>
QExactTable == <<Sec(<<701, 2, 1>>), W("table"), Tab(<<701, 2, 1>>, 1)>>
QTableIntent == <<W("conduit"), W("sizes"), W("table")>>
QLocation == <<W("which"), W("section"), W("covers"), W("conduit")>>
QDays == <<W("within"), W("how"), W("many"), W("days"), W("must"), W("the"),
           W("subcontractor"), W("be"), W("paid")>>
QInterest == <<W("when"), W("does"), W("interest"), W("accrue")>>
QGeneric == <<W("conduit"), W("materials")>>
QNoMatch == <<W("bridge"), W("deck")>>

Queries ==
  {QBareExact, QExact, QSection, QBarePrefix, QSectionTable, QTable3, QTable2, QExactTable,
   QTableIntent, QLocation, QDays, QInterest, QGeneric, QNoMatch}

Modes == {"answer", "sources_only"}

(***************************************************************************)
(* One request to ask_question.  pc is the position in                     *)
(* _ask_question_inner; hits, conf and used_prefix_fallback are its local  *)
(* variables; result is what ask_question returns.  path, llm_calls,       *)
(* fusion_ran, raised, vecMode and llm record what the request did and     *)
(* what the vector index and the generation service answered.              *)
(***************************************************************************)
VARIABLES query, scope, k, mode, store, vecMode, pc, hits, conf, used_prefix_fallback,
          result, path, llm_calls, fusion_ran, raised, llm

\* a call of compute_confidence: its arguments and the level it returned
VARIABLES top_rrf, overlap_top10, level

confidenceVars == <<top_rrf, overlap_top10, level>>

\* a call of reciprocal_rank_fusion: the ranked lists, whether the call has
\* returned, and the dict it returned
VARIABLES ranked_lists, is_fused, fused

fusionVars == <<ranked_lists, is_fused, fused>>

\* the index files on disk, the generation of the chunks table, the place of
\* the rebuild and of a query, and what the query has loaded
VARIABLES files, generation, build_pc, read_pc, loaded

indexVars == <<files, generation, build_pc, read_pc, loaded>>

\* the documents and pages tables, the three tables that rebuild_chunks
\* writes, and the number of its runs
VARIABLES documents, pages_table, chunks_table, tables_table, table_rows, rebuilds
\* rebuild_chunks step by step: chunks_table, tables_table and table_rows are
\* what is committed; rebuild_pc is the position of the call, uncommitted
\* the rows of its open transaction, stored_before what was committed when
\* it started, reader_saw what another connection last read
VARIABLES rebuild_pc, uncommitted, stored_before, reader_saw

ingestVars ==
  <<documents, pages_table, chunks_table, tables_table, table_rows, rebuilds, rebuild_pc,
    uncommitted, stored_before, reader_saw>>

\* a call of faiss_chunks_search_filtered: the rows of the index in the order
\* of their similarity to the query, k, the scope, whether the call has
\* returned, and its hits
VARIABLES nearest, nearest_k, nearest_scope, nearest_done, nearest_hits

nearestVars == <<nearest, nearest_k, nearest_scope, nearest_done, nearest_hits>>

\* the variables of the functions that are also specified on their own
unitVars == <<confidenceVars, fusionVars, indexVars, ingestVars, nearestVars>>

askVars == <<query, scope, k, mode, store, vecMode, pc, hits, conf, used_prefix_fallback,
             result, path, llm_calls, fusion_ran, raised, llm>>

vars == <<askVars, unitVars>>

\* no call of reciprocal_rank_fusion is under way
NoFusionCall ==
  /\ ranked_lists = <<>>
  /\ is_fused = FALSE
  /\ fused = [keys |-> <<>>, score |-> <<>>]

\* a file of generation gen of which blocks blocks are written
File(gen, blocks) == [gen |-> gen, blocks |-> blocks]

IndexFiles == {"bm25_chunks.pkl", "faiss_chunks.index", "faiss_chunks_meta.pkl"}

\* no index is built or loaded
NoIndexFiles ==
  /\ files = [f \in IndexFiles |-> File(0, 0)]
  /\ generation = 0
  /\ build_pc = "idle"
  /\ read_pc = "idle"
  /\ loaded = [f \in IndexFiles |-> File(0, 0)]

\* no document is ingested
\* the three tables without rows
EmptyTables == [chunks |-> <<>>, tables |-> {}, table_rows |-> <<>>]

\* no call of rebuild_chunks is open and nothing was read
NoTransaction ==
  /\ rebuild_pc = "idle"
  /\ uncommitted = EmptyTables
  /\ stored_before = EmptyTables
  /\ reader_saw = [pc |-> "none", tables |-> EmptyTables, before |-> EmptyTables]

NoIngestion ==
  /\ documents = <<>>
  /\ pages_table = <<>>
  /\ chunks_table = <<>>
  /\ tables_table = {}
  /\ table_rows = <<>>
  /\ rebuilds = 0
  /\ NoTransaction

\* no call of faiss_chunks_search_filtered is under way
NoNearestCall ==
  /\ nearest = <<>>
  /\ nearest_k = 1
  /\ nearest_scope = [name |-> "all", mp_ids |-> {}]
  /\ nearest_done = FALSE
  /\ nearest_hits = <<>>

\* no call of compute_confidence is under way
NoConfidenceCall ==
  /\ top_rrf = 0
  /\ overlap_top10 = 0
  /\ level = "none"

request == <<query, scope, k, mode, store>>

NoLlm == [kind |-> "none", answer |-> <<>>]

\* a request with its query among queries and its scope among scopes
StartWith(queries, scopes, ks) ==
  /\ query \in queries
  /\ scope \in scopes
  /\ k \in ks
  /\ mode \in Modes
  /\ store \in Stores
  /\ vecMode = "none"
  /\ pc = "prelookup"
  /\ hits = <<>>
  /\ conf = "none"
  /\ used_prefix_fallback = FALSE
  /\ result = NoResult
  /\ path = "none"
  /\ llm_calls = 0
  /\ fusion_ran = FALSE
  /\ raised = "none"
  /\ llm = NoLlm
  /\ NoConfidenceCall
  /\ NoFusionCall
  /\ NoIndexFiles
  /\ NoIngestion
  /\ NoNearestCall

Start(queries, scopes) == StartWith(queries, scopes, 1..MaxK)

Init == Start(Queries, Scopes)

\* return r: the request is done
Return(r, name) ==
  /\ result' = r
  /\ path' = name
  /\ pc' = "done"

\* a deterministic path returns r, or declines and the request goes on at next
ReturnOrGo(r, name, next) ==
  IF r # NoResult THEN Return(r, name)
  ELSE pc' = next /\ UNCHANGED <<result, path>>

\* lines 1250-1296
TablePrelookup ==
  /\ pc = "prelookup"
  /\ ReturnOrGo(table_prelookup(store, query, scope, mode), "table_prelookup", "exact")
  /\ UNCHANGED <<unitVars, request, vecMode, hits, conf, used_prefix_fallback, llm_calls, fusion_ran, raised, llm>>

\* lines 1300-1346
ExactSection ==
  /\ pc = "exact"
  /\ ReturnOrGo(exact_section(store, query, scope, k, mode), "section_exact", "retrieve")
  /\ UNCHANGED <<unitVars, request, vecMode, hits, conf, used_prefix_fallback, llm_calls, fusion_ran, raised, llm>>

\* lines 1353-1393: the outcome f of the section-prefix lookup
PrefixFetched(f) ==
  IF f.raised
  THEN /\ pc' = "raised"
       /\ raised' = "ZeroDivisionError"
       /\ UNCHANGED <<hits, conf, used_prefix_fallback>>
  ELSE /\ hits' = f.hits
       /\ conf' = f.conf
       /\ used_prefix_fallback' = TRUE
       /\ pc' = "route"
       /\ UNCHANGED raised

\* lines 1395-1397: the outcome h of the hybrid search
Searched(h) ==
  /\ hits' = h.hits
  /\ conf' = h.conf
  /\ pc' = "route"
  /\ UNCHANGED <<used_prefix_fallback, raised>>

\* lines 1349-1398: the section-prefix lookup, else hybrid search
Retrieve ==
  /\ pc = "retrieve"
  /\ IF PrefixLookupApplies(query) /\ prefix_pool(store, query, scope, k) # <<>>
     THEN /\ PrefixFetched(section_prefix_fallback(store, query, scope, k))
          /\ UNCHANGED <<fusion_ran, vecMode>>
     ELSE \E v \in VecModes :
            /\ Searched(hybrid_chunks_search(store, query, k, scope, v))
            /\ vecMode' = v
            /\ fusion_ran' = TRUE
  /\ UNCHANGED <<unitVars, request, result, path, llm_calls, llm>>

RouteName(q, m, r) ==
  IF m = "sources_only" THEN "sources_only"
  ELSE IF is_bare_section_id_query(q) \/ question_asks_for_section_or_page(q)
  THEN "section_lookup"
  ELSE IF r.hits = <<>> THEN "section_intent_empty"
  ELSE IF used_prefix_fallback THEN "section_prefix" ELSE "section_hybrid"

\* the request returns r, or goes on with the hits that are left
Routed(r) ==
  IF r # NoResult THEN Return(r, RouteName(query, mode, r)) /\ UNCHANGED hits
  ELSE /\ hits' = preferred_hits(query, k, hits)
       /\ pc' = "tables"
       /\ UNCHANGED <<result, path>>

\* lines 1400-1466
Route ==
  /\ pc = "route"
  /\ Routed(route(query, k, mode, hits, conf))
  /\ UNCHANGED <<unitVars, request, vecMode, conf, used_prefix_fallback, llm_calls, fusion_ran, raised, llm>>

DeterministicName(r) ==
  IF r.confidence = "weak" THEN "weak"
  ELSE IF r.table # NoTableBlock THEN "table_intent" ELSE "passthrough"

Decided(r) == ReturnOrGo(r, DeterministicName(r), "generate")

\* lines 1468-1669
Deterministic ==
  /\ pc = "tables"
  /\ Decided(deterministic(store, query, hits, conf))
  /\ UNCHANGED <<unitVars, request, vecMode, hits, conf, used_prefix_fallback, llm_calls, fusion_ran, raised, llm>>

Generated(g) ==
  /\ Return(g.res, g.path)
  /\ llm_calls' = llm_calls + g.calls

\* lines 1671-1762
Generate ==
  /\ pc = "generate"
  /\ \E o \in LlmOutcomes :
       /\ Generated(generate(query, hits, conf, o))
       /\ llm' = o
  /\ UNCHANGED <<unitVars, request, vecMode, hits, conf, used_prefix_fallback, fusion_ran, raised>>

\* the positions at which the request reads the document store or an index
ReadsStorage ==
  \/ pc = "prelookup" /\ explicit_table(query) /\ mode = "answer"
  \/ pc = "exact" /\ extract_exact_section_id(query) # None
  \/ pc = "retrieve"
  \/ pc = "route" /\ hits # <<>>
  \/ pc = "tables" /\ hits # <<>> /\ hits[1].table_uid # NoTable

\* a read of the document store or of an index file raises
StorageError ==
  /\ ReadsStorage
  /\ pc' = "raised"
  /\ raised' = "storage"
  /\ UNCHANGED <<unitVars, request, vecMode, hits, conf, used_prefix_fallback, result, path, llm_calls,
                 fusion_ran, llm>>

\* faulty variant of the handler of ask_question: it answers with the
\* generation fallback on the hits retrieved so far
ExceptWithFallback ==
  /\ pc = "raised"
  /\ Return(llm_fallback_answer(hits), "exception")
  /\ UNCHANGED <<unitVars, request, vecMode, hits, conf, used_prefix_fallback, llm_calls, fusion_ran, raised, llm>>

\* ask_question, lines 1773-1783: except Exception
AskQuestionExcept ==
  /\ pc = "raised"
  /\ Return(weak_response(<<>>, query), "exception")
  /\ UNCHANGED <<unitVars, request, vecMode, hits, conf, used_prefix_fallback, llm_calls, fusion_ran, raised, llm>>

Next ==
  \/ TablePrelookup
  \/ ExactSection
  \/ Retrieve
  \/ Route
  \/ Deterministic
  \/ Generate
  \/ StorageError
  \/ AskQuestionExcept

Spec == Init /\ [][Next]_vars

\* requests on every kind of scope, for the queries that take each lookup
ScopeQueries == {QExact, QSection, QGeneric, QTable3}

InitScopes == Start(ScopeQueries, Scopes \cup MpScopes)

SpecScopes == InitScopes /\ [][Next]_vars

\* requests for one hit more than MaxK, for queries without table intent
\* and without section intent
WideQueries == {QDays, QGeneric, QNoMatch}

InitWide == StartWith(WideQueries, Scopes, {MaxK + 1})

SpecWide == InitWide /\ [][Next]_vars

(***************************************************************************)
(* hybrid_chunks_search called by the retrieval endpoint (routers/chat.py  *)
(* 119-125), without the lookups that ask_question makes before it.        *)
(***************************************************************************)
SearchQueries ==
  {QBareExact, QExact, QSection, QBarePrefix, QSectionTable, QExactTable, QLocation, QGeneric}

InitSearch ==
  /\ query \in SearchQueries
  /\ scope \in Scopes
  /\ k \in 1..MaxK
  /\ mode = "sources_only"
  /\ store \in Stores
  /\ vecMode = "none"
  /\ pc = "search"
  /\ hits = <<>>
  /\ conf = "none"
  /\ used_prefix_fallback = FALSE
  /\ result = NoResult
  /\ path = "none"
  /\ llm_calls = 0
  /\ fusion_ran = FALSE
  /\ raised = "none"
  /\ llm = NoLlm
  /\ NoConfidenceCall
  /\ NoFusionCall
  /\ NoIndexFiles
  /\ NoIngestion
  /\ NoNearestCall

\* chat_hybrid_retrieve_chunks: hits, conf = hybrid_chunks_search(...)
HybridRetrieveChunks ==
  /\ pc = "search"
  /\ \E v \in VecModes :
       /\ hits' = hybrid_chunks_search(store, query, k, scope, v).hits
       /\ conf' = hybrid_chunks_search(store, query, k, scope, v).conf
       /\ vecMode' = v
  /\ fusion_ran' = TRUE
  /\ pc' = "done"
  /\ UNCHANGED <<unitVars, request, used_prefix_fallback, result, path, llm_calls, raised, llm>>

NextSearch ==
  \/ HybridRetrieveChunks

SpecSearch == InitSearch /\ [][NextSearch]_vars

(***************************************************************************)
(* compute_confidence on its own (hybrid_chunks.py 138-143, the same       *)
(* function in hybrid.py 44-58): called with a top score and an overlap,   *)
(* then called again with a lower top score and the same overlap.          *)
(***************************************************************************)
\* no request is in flight
NoRequest ==
  /\ query = <<>>
  /\ scope = Scope("all", {})
  /\ k = 1
  /\ mode = "answer"
  /\ store = <<>>
  /\ vecMode = "none"
  /\ pc = "done"
  /\ hits = <<>>
  /\ conf = "none"
  /\ used_prefix_fallback = FALSE
  /\ result = NoResult
  /\ path = "none"
  /\ llm_calls = 0
  /\ fusion_ran = FALSE
  /\ raised = "none"
  /\ llm = NoLlm

\* largest overlap of the two top-10 lists that is tried
MaxOverlap == 3

\* top scores on both sides of the two thresholds, and the fused scores of the
\* first ranks of one list and of two lists
TopScores ==
  {0, MediumScore - 1, MediumScore, MediumScore + 1, StrongScore - 1, StrongScore,
   StrongScore + 1, 2 * StrongScore}
    \cup {Reciprocal(RrfK, r) : r \in 1..MaxOverlap}
    \cup {2 * Reciprocal(RrfK, r) : r \in 1..MaxOverlap}

InitConfidence ==
  /\ NoRequest
  /\ NoFusionCall
  /\ NoIndexFiles
  /\ NoIngestion
  /\ NoNearestCall
  /\ top_rrf \in TopScores
  /\ overlap_top10 \in 0..MaxOverlap
  /\ level = "none"

ComputeConfidence ==
  /\ level = "none"
  /\ level' = compute_confidence(top_rrf, overlap_top10)
  /\ UNCHANGED <<askVars, nearestVars, ingestVars, fusionVars, indexVars, top_rrf, overlap_top10>>

\* the next call has a lower top score and the same overlap
LowerTopScore ==
  /\ level # "none"
  /\ top_rrf' \in {s \in TopScores : s < top_rrf}
  /\ level' = compute_confidence(top_rrf', overlap_top10)
  /\ UNCHANGED <<askVars, nearestVars, ingestVars, fusionVars, indexVars, overlap_top10>>

NextConfidence ==
  \/ ComputeConfidence
  \/ LowerTopScore

SpecConfidence == InitConfidence /\ [][NextConfidence]_vars

(***************************************************************************)
(* reciprocal_rank_fusion on its own (hybrid_chunks.py 127-135, the same   *)
(* function in hybrid.py 29-41): called on two ranked lists of chunk ids   *)
(* (the lexical and the vector ranking, hybrid_chunks.py 193), then called *)
(* again after an id was added to a list or moved one rank down.           *)
(***************************************************************************)
\* number of chunk ids that are ranked
MaxKeys == 3

\* rankings of distinct ids
Rankings ==
  {r \in UNION {[1..n -> 1..MaxKeys] : n \in 0..MaxKeys} :
     \A i, j \in 1..Len(r) : r[i] = r[j] => i = j}

InsertAt(lst, p, key) == Take(lst, p - 1) \o <<key>> \o Drop(lst, p - 1)

SwapDown(lst, p) ==
  [i \in 1..Len(lst) |-> IF i = p THEN lst[p + 1] ELSE IF i = p + 1 THEN lst[p] ELSE lst[i]] \o <<>>

InitFusion ==
  /\ NoRequest
  /\ NoConfidenceCall
  /\ NoIndexFiles
  /\ NoIngestion
  /\ NoNearestCall
  /\ ranked_lists \in {<<b, v>> : b \in Rankings, v \in Rankings}
  /\ is_fused = FALSE
  /\ fused = [keys |-> <<>>, score |-> <<>>]

Fuse ==
  /\ ~is_fused
  /\ fused' = reciprocal_rank_fusion(ranked_lists, RrfK)
  /\ is_fused' = TRUE
  /\ UNCHANGED <<askVars, nearestVars, ingestVars, confidenceVars, indexVars, ranked_lists>>

\* the next call has one more id in one of the lists
AddToList ==
  /\ is_fused
  /\ \E i \in 1..Len(ranked_lists) :
       \E key \in (1..MaxKeys) \ Range(ranked_lists[i]) :
         \E p \in 1..(Len(ranked_lists[i]) + 1) :
           ranked_lists' = [ranked_lists EXCEPT ![i] = InsertAt(@, p, key)]
  /\ fused' = reciprocal_rank_fusion(ranked_lists', RrfK)
  /\ UNCHANGED <<askVars, nearestVars, ingestVars, confidenceVars, indexVars, is_fused>>

\* the next call has one id of one list a rank further down
MoveDown ==
  /\ is_fused
  /\ \E i \in 1..Len(ranked_lists) :
       \E p \in 1..(Len(ranked_lists[i]) - 1) :
         ranked_lists' = [ranked_lists EXCEPT ![i] = SwapDown(@, p)]
  /\ fused' = reciprocal_rank_fusion(ranked_lists', RrfK)
  /\ UNCHANGED <<askVars, nearestVars, ingestVars, confidenceVars, indexVars, is_fused>>

NextFusion ==
  \/ Fuse
  \/ AddToList
  \/ MoveDown

SpecFusion == InitFusion /\ [][NextFusion]_vars

(***************************************************************************)
(* The index files under a rebuild and a query at the same time.           *)
(* build_bm25_chunks_index (bm25_chunks.py 54-57, 66-128) and              *)
(* build_faiss_chunks_index (faiss_chunks.py 38-109) open each file of     *)
(* settings.INDEX_DIR for writing, which empties it, and write it block by *)
(* block; a search loads the files by the same paths (bm25_chunks.py       *)
(* 59-63, 139-140; faiss_chunks.py 112-116, 128-131).  A read takes the    *)
(* file as it is on disk at that moment.                                   *)
(***************************************************************************)
\* number of rebuilds after the first
MaxBuilds == 2
\* number of blocks a file is written in
FileBlocks == 2

\* the order in which a rebuild writes the files
NextFile(f) ==
  CASE f = "bm25_chunks.pkl" -> "faiss_chunks.index"
    [] f = "faiss_chunks.index" -> "faiss_chunks_meta.pkl"
    [] OTHER -> "idle"

InitIndexes ==
  /\ NoRequest
  /\ NoConfidenceCall
  /\ NoFusionCall
  /\ NoIngestion
  /\ NoNearestCall
  /\ files = [f \in IndexFiles |-> File(1, FileBlocks)]
  /\ generation = 1
  /\ build_pc = "idle"
  /\ read_pc = "idle"
  /\ loaded = [f \in IndexFiles |-> File(0, 0)]

\* rebuild_chunks has changed the chunks table; the build scripts are run
StartBuild ==
  /\ build_pc = "idle"
  /\ generation <= MaxBuilds
  /\ generation' = generation + 1
  /\ build_pc' = "bm25_chunks.pkl"
  /\ UNCHANGED <<askVars, nearestVars, ingestVars, confidenceVars, fusionVars, files, read_pc, loaded>>

\* path.open("wb"), faiss.write_index: the file is emptied
OpenForWriting ==
  /\ build_pc \in IndexFiles
  /\ files[build_pc].gen # generation
  /\ files' = [files EXCEPT ![build_pc] = File(generation, 0)]
  /\ UNCHANGED <<askVars, nearestVars, ingestVars, confidenceVars, fusionVars, generation, build_pc, read_pc, loaded>>

\* pickle.dump, faiss.write_index: the next block
WriteBlock ==
  /\ build_pc \in IndexFiles
  /\ files[build_pc].gen = generation
  /\ files[build_pc].blocks < FileBlocks
  /\ files' = [files EXCEPT ![build_pc].blocks = @ + 1]
  /\ UNCHANGED <<askVars, nearestVars, ingestVars, confidenceVars, fusionVars, generation, build_pc, read_pc, loaded>>

\* the file is closed; the build goes on with the next file
CloseFile ==
  /\ build_pc \in IndexFiles
  /\ files[build_pc] = File(generation, FileBlocks)
  /\ build_pc' = NextFile(build_pc)
  /\ UNCHANGED <<askVars, nearestVars, ingestVars, confidenceVars, fusionVars, files, generation, read_pc, loaded>>

\* hybrid_chunks_search, line 155: BM25ChunksIndex.load(index_path)
LoadBm25 ==
  /\ read_pc = "idle"
  /\ loaded' = [f \in IndexFiles |->
                  IF f = "bm25_chunks.pkl" THEN files[f] ELSE File(0, 0)]
  /\ read_pc' = "read_index"
  /\ UNCHANGED <<askVars, nearestVars, ingestVars, confidenceVars, fusionVars, files, generation, build_pc>>

\* _load, line 113: faiss.read_index(str(index_path))
ReadIndex ==
  /\ read_pc = "read_index"
  /\ loaded' = [loaded EXCEPT !["faiss_chunks.index"] = files["faiss_chunks.index"]]
  /\ read_pc' = "load_meta"
  /\ UNCHANGED <<askVars, nearestVars, ingestVars, confidenceVars, fusionVars, files, generation, build_pc>>

\* _load, lines 114-115: pickle.load of the meta file
LoadMeta ==
  /\ read_pc = "load_meta"
  /\ loaded' = [loaded EXCEPT !["faiss_chunks_meta.pkl"] = files["faiss_chunks_meta.pkl"]]
  /\ read_pc' = "search"
  /\ UNCHANGED <<askVars, nearestVars, ingestVars, confidenceVars, fusionVars, files, generation, build_pc>>

\* the search on what was loaded returns; the next query may start
Search ==
  /\ read_pc = "search"
  /\ read_pc' = "idle"
  /\ UNCHANGED <<askVars, nearestVars, ingestVars, confidenceVars, fusionVars, files, generation, build_pc, loaded>>

NextIndexes ==
  \/ StartBuild
  \/ OpenForWriting
  \/ WriteBlock
  \/ CloseFile
  \/ LoadBm25
  \/ ReadIndex
  \/ LoadMeta
  \/ Search

SpecIndexes == InitIndexes /\ [][NextIndexes]_vars

(***************************************************************************)
(* rebuild_chunks (chunk_ingestion.py 273-442) with chunk_document_pages   *)
(* (chunking.py).  Here page text is a sequence of lines, and a line is    *)
(* what the regular expressions of the two files tell apart:               *)
(*   "sub"      a subsection header, "701.01  DESCRIPTION"                 *)
(*   "section"  a section header, "SECTION 701 - GENERAL ITEMS"            *)
(*   "table"    a table header, "Table 701.01-1 Conduit sizes"             *)
(*   "row"      a line of table data                                       *)
(*   "ref"      prose that names a table, "see Table 701.01-1"             *)
(*   "toc"      a contents line, "701.01 Description ........ 12"          *)
(*   "eq"       a formula line; its id is its equation score in hundredths *)
(*   "text"     any other prose                                            *)
(*   "blank"    a blank line                                               *)
(***************************************************************************)
Line(kind, id) == [kind |-> kind, id |-> id]

Prose == Line("text", <<>>)
Blank == Line("blank", <<>>)
Row(n) == Line("row", <<n>>)

\* number of characters of a line that is not blank
LineChars == 24
\* chunking.py, line 70
PreambleMinChars == 40

\* s.strip() on lines: blank lines at both ends go
RECURSIVE LStrip(_)
LStrip(lines) ==
  IF lines # <<>> /\ Head(lines).kind = "blank" THEN LStrip(Tail(lines)) ELSE lines

RECURSIVE RStrip(_)
RStrip(lines) ==
  IF lines # <<>> /\ lines[Len(lines)].kind = "blank"
  THEN RStrip(SubSeq(lines, 1, Len(lines) - 1))
  ELSE lines

Strip(lines) == RStrip(LStrip(lines))

\* len(s) of stripped text: the lines and the line breaks between them
Chars(lines) ==
  IF lines = <<>> THEN 0
  ELSE LineChars * Cardinality({i \in 1..Len(lines) : lines[i].kind # "blank"})
         + (Len(lines) - 1)

PageSegment(section_id, heading, text) ==
  [section_id |-> section_id, heading |-> heading, text |-> text]

\* [m.start() for m in matches] of a header pattern, in the order of the text
RECURSIVE Starts(_, _, _)
Starts(lines, kind, i) ==
  IF i > Len(lines) THEN <<>>
  ELSE (IF lines[i].kind = kind THEN <<i>> ELSE <<>>) \o Starts(lines, kind, i + 1)

\* chunking.py, lines 47-57: the line of text that names the section, or
\* "SECTION <marker>"; both are the header line here
section_heading_line(text, marker) == <<Line("section", marker)>>

\* chunking.py, lines 77-97 and 104-121: one segment per header; the text
\* before the first header is kept when it has 40 characters or more
SegmentsAt(lines, starts, kind) ==
  [idx \in 1..Len(starts) |->
     LET start == starts[idx]
         end == IF idx + 1 <= Len(starts) THEN starts[idx + 1] - 1 ELSE Len(lines)
         seg_text == Strip(SubSeq(lines, start, end))
         preamble == Strip(SubSeq(lines, 1, starts[1] - 1))
         kept == IF idx = 1 /\ Chars(preamble) >= PreambleMinChars
                 THEN preamble \o seg_text ELSE seg_text
     IN PageSegment(lines[start].id,
                    IF kind = "sub" THEN <<lines[start]>>
                    ELSE section_heading_line(kept, lines[start].id),
                    kept)] \o <<>>

split_page_into_segments(text) ==
  IF text = <<>> THEN <<PageSegment(None, None, <<>>)>>
  ELSE IF Starts(text, "sub", 1) # <<>> THEN SegmentsAt(text, Starts(text, "sub", 1), "sub")
  ELSE IF Starts(text, "section", 1) # <<>>
       THEN SegmentsAt(text, Starts(text, "section", 1), "section")
  ELSE <<PageSegment(None, None, Strip(text))>>

\* no page: cur_start and cur_end are None
NoPage == 0

PlainChunk(section_id, heading, page_start, page_end, text) ==
  [section_id |-> section_id, heading |-> heading, page_start |-> page_start,
   page_end |-> page_end, text |-> text]

\* the state of the loop of chunk_document_pages
NoCurrent(chunks) ==
  [section |-> None, heading |-> None, start |-> NoPage, end |-> NoPage, buf |-> <<>>,
   chunks |-> chunks]

\* a flush that stores the chunk whatever its text
flush_any_text(cur) ==
  IF cur.start = NoPage \/ cur.end = NoPage \/ cur.buf = <<>> THEN cur
  ELSE NoCurrent(Append(cur.chunks,
                        PlainChunk(cur.section, cur.heading, cur.start, cur.end,
                                   Strip(cur.buf))))

\* chunking.py, lines 142-149
flush(cur) ==
  IF cur.start = NoPage \/ cur.end = NoPage \/ cur.buf = <<>> THEN cur
  ELSE IF Strip(cur.buf) # <<>>
       THEN NoCurrent(Append(cur.chunks,
                             PlainChunk(cur.section, cur.heading, cur.start, cur.end,
                                        Strip(cur.buf))))
       ELSE NoCurrent(cur.chunks)

\* lines 155-171: where the segment starts a chunk
Opened(cur, page_no, seg) ==
  IF cur.start = NoPage
  THEN [cur EXCEPT !.start = page_no, !.section = seg.section_id, !.heading = seg.heading]
  ELSE IF seg.section_id # None /\ seg.section_id # cur.section
       THEN [flush(cur) EXCEPT !.start = page_no, !.section = seg.section_id,
                               !.heading = seg.heading]
  ELSE IF cur.section = None /\ seg.section_id # None
       THEN [cur EXCEPT !.section = seg.section_id, !.heading = seg.heading]
  ELSE cur

\* lines 173-174; a segment without text adds a line break, here a blank line
Extended(cur, page_no, seg) ==
  [cur EXCEPT !.end = page_no,
              !.buf = @ \o (IF seg.text = <<>> THEN <<Blank>> ELSE seg.text)]

RECURSIVE OverSegments(_, _, _)
OverSegments(cur, page_no, segments) ==
  IF segments = <<>> THEN cur
  ELSE OverSegments(Extended(Opened(cur, page_no, Head(segments)), page_no, Head(segments)),
                    page_no, Tail(segments))

RECURSIVE OverPages(_, _)
OverPages(cur, pages) ==
  IF pages = <<>> THEN cur
  ELSE OverPages(OverSegments(cur, Head(pages).page_number,
                              split_page_into_segments(Head(pages).text)),
                 Tail(pages))

chunk_document_pages(pages) == flush(OverPages(NoCurrent(<<>>), pages)).chunks

\* chunk_ingestion.py, lines 36-41 and 328; looks_like_toc_block and
\* equation_score >= 0.45 are decided by the kinds of the lines
classify_chunk(section_id, text) ==
  IF \E i \in 1..Len(text) : text[i].kind = "toc" THEN "toc"
  ELSE IF section_id = None THEN "front_matter"
  ELSE "content"

\* line 328: the score at which a chunk is an equation, in hundredths
EquationThreshold == 45

\* equation_score: the best score of a line; lines other than formula lines
\* score less than the threshold
equation_score(text) ==
  IF \E i \in 1..Len(text) : text[i].kind = "eq"
  THEN CHOOSE sc \in {text[i].id[1] : i \in {j \in 1..Len(text) : text[j].kind = "eq"}} :
         \A i \in 1..Len(text) : text[i].kind = "eq" => text[i].id[1] <= sc
  ELSE 0

\* the kind of a chunk whatever its equation score
kind_without_equation(ch) == classify_chunk(ch.section_id, ch.text)

\* line 328
KindOf(ch) ==
  IF equation_score(ch.text) >= EquationThreshold THEN "equation"
  ELSE classify_chunk(ch.section_id, ch.text)

\* _TABLE_HEADER_RE and _SECTION_HEADER_RE on a line
IsTableHeader(ln) == ln.kind = "table"
IsSectionHeader(ln) == ln.kind \in {"sub", "toc"}

\* line 141: a block needs this many lines that are not blank
MinTableLines == 5

ExtractedBlock(lines, start_line, end_line) ==
  [lines |-> lines, start_line |-> start_line, end_line |-> end_line]

\* buf_start is None
NoLine == -1

\* chunk_ingestion.py, lines 137-144
flush_block(st, end_i) ==
  [buf |-> <<>>, buf_start |-> NoLine,
   blocks |->
     IF /\ st.buf_start # NoLine
        /\ st.buf # <<>>
        /\ Cardinality({j \in 1..Len(st.buf) : st.buf[j].kind # "blank"}) >= MinTableLines
     THEN Append(st.blocks, ExtractedBlock(st.buf, st.buf_start, end_i))
     ELSE st.blocks]

\* lines 146-163, for line i (0-based) of lines
BlockStep(st, i, ln) ==
  IF IsTableHeader(ln)
  THEN LET f == IF st.buf_start # NoLine THEN flush_block(st, i - 1) ELSE st
       IN [f EXCEPT !.buf_start = i, !.buf = Append(@, ln)]
  ELSE IF st.buf_start # NoLine
       THEN IF IsSectionHeader(ln) THEN flush_block(st, i - 1)
            ELSE [st EXCEPT !.buf = Append(@, ln)]
  ELSE st

RECURSIVE OverLines(_, _, _)
OverLines(st, lines, i) ==
  IF i >= Len(lines) THEN st
  ELSE OverLines(BlockStep(st, i, lines[i + 1]), lines, i + 1)

extract_table_blocks(page_text) ==
  LET st == OverLines([buf |-> <<>>, buf_start |-> NoLine, blocks |-> <<>>], page_text, 0)
  IN (IF st.buf_start # NoLine THEN flush_block(st, Len(page_text) - 1) ELSE st).blocks

\* line 183: the lines that are hashed
HashedLines == 25

\* a fresh identifier for every run
uid_of_run(document_id, filename, page_number, table_index_on_page, lines) ==
  <<document_id, filename, page_number, table_index_on_page, <<Line("run", <<rebuilds>>)>>>>

\* chunk_ingestion.py, lines 171-186: "tbl_" and the SHA-1 digest of the five
\* parts joined by "|"; the uid is modelled by what is hashed
stable_table_uid(document_id, filename, page_number, table_index_on_page, lines) ==
  <<document_id, filename, page_number, table_index_on_page, Take(lines, HashedLines)>>

\* NULL in a table_uid, table_label or table_row_index column
NoUid == <<>>
NullRow == -1

ChunkRow(id, doc, chunk_index, section_id, heading, page_start, page_end, text, kind,
         table_uid, table_row_index, table_label) ==
  [id |-> id, document_id |-> doc, chunk_index |-> chunk_index, section_id |-> section_id,
   heading |-> heading, page_start |-> page_start, page_end |-> page_end, text |-> text,
   chunk_kind |-> kind, table_uid |-> table_uid, table_row_index |-> table_row_index,
   table_label |-> table_label]

\* SELECT page_number, text FROM pages WHERE document_id = ? (no ORDER BY)
pages_as_inserted(page_rows, doc_id) ==
  SelectSeq(page_rows, LAMBDA r : r.document_id = doc_id)

\* lines 299-304: ... ORDER BY page_number
pages_of(page_rows, doc_id) ==
  LET rows == SelectSeq(page_rows, LAMBDA r : r.document_id = doc_id)
  IN SortAsc(rows, [i \in 1..Len(rows) |-> rows[i].page_number])

\* sorted(chunks, key=lambda c: (c.page_start, c.page_end))
ChunksSorted(chunks) ==
  SortAsc(chunks, [i \in 1..Len(chunks) |-> chunks[i].page_start * 100 + chunks[i].page_end])

\* lines 311-322: the section and heading of the last chunk with a section
\* id among the sorted chunks that start on page_no or before
ContextOfPage(chunks_sorted, page_no) ==
  LET seen == {i \in 1..Len(chunks_sorted) :
                 /\ chunks_sorted[i].page_start <= page_no
                 /\ chunks_sorted[i].section_id # None}
  IN IF seen = {} THEN [section_id |-> None, heading |-> None]
     ELSE LET last == CHOOSE i \in seen : \A j \in seen : j <= i
          IN [section_id |-> chunks_sorted[last].section_id,
              heading |-> chunks_sorted[last].heading]

\* f"Table (p. {page_no}) #{t_idx}"
TableLabel(page_no, t_idx) == <<page_no, t_idx>>

\* lines 368-388: the row of the tables table
TableRecord(doc, page_no, t_idx, blk, ctx) ==
  [table_uid |-> stable_table_uid(doc.id, doc.filename, page_no, t_idx, blk.lines),
   document_id |-> doc.id, section_id |-> ctx.section_id, page_number |-> page_no,
   table_index_on_page |-> t_idx, table_label |-> TableLabel(page_no, t_idx)]

\* lines 392-403: the table_rows rows of a block, blank lines left out
RowsOfBlock(uid, lines) ==
  [i \in 1..Len(SelectSeq(lines, LAMBDA ln : ln.kind # "blank")) |->
     LET r_idx == (CHOOSE j \in 1..Len(lines) :
                     /\ lines[j].kind # "blank"
                     /\ Cardinality({m \in 1..j : lines[m].kind # "blank"}) = i) - 1
     IN [table_uid |-> uid, row_index |-> r_idx, row_text |-> lines[r_idx + 1]]] \o <<>>

\* the blocks of a page with their place on the page, as rows of tables
TablesOfPage(doc, page, ctx) ==
  LET blocks == extract_table_blocks(page.text)
  IN [t \in 1..Len(blocks) |->
        [table |-> TableRecord(doc, page.page_number, t, blocks[t], ctx),
         heading |-> ctx.heading,
         lines |-> blocks[t].lines]] \o <<>>

RECURSIVE TablesOfPages(_, _, _)
TablesOfPages(doc, pages, chunks_sorted) ==
  IF pages = <<>> THEN <<>>
  ELSE TablesOfPage(doc, Head(pages), ContextOfPage(chunks_sorted, Head(pages).page_number))
         \o TablesOfPages(doc, Tail(pages), chunks_sorted)

\* INSERT OR REPLACE INTO tables
RECURSIVE Upserted(_, _)
Upserted(stored, found) ==
  IF found = <<>> THEN stored
  ELSE Upserted({t \in stored : t.table_uid # Head(found).table.table_uid}
                  \cup {Head(found).table},
                Tail(found))

\* lines 326-353: the rows of the chunks of the text, chunk_index from 0
PlainRows(doc, chunks, first_id) ==
  [i \in 1..Len(chunks) |->
     ChunkRow(first_id + i - 1, doc.id, i - 1, chunks[i].section_id, chunks[i].heading,
              chunks[i].page_start, chunks[i].page_end, chunks[i].text, KindOf(chunks[i]),
              NoUid, NullRow, <<>>)] \o <<>>

\* lines 392-403: the table_rows rows of all blocks
RECURSIVE AllRows(_)
AllRows(found) ==
  IF found = <<>> THEN <<>>
  ELSE RowsOfBlock(Head(found).table.table_uid, Head(found).lines) \o AllRows(Tail(found))

\* the block that a table_rows row belongs to
RECURSIVE OwnerOf(_, _)
OwnerOf(found, n) ==
  LET here == Len(RowsOfBlock(Head(found).table.table_uid, Head(found).lines))
  IN IF n <= here THEN Head(found) ELSE OwnerOf(Tail(found), n - here)

\* lines 406-431: one searchable chunk for every table_rows row
RowChunks(doc, found, rows, first_id, first_index) ==
  [n \in 1..Len(rows) |->
     LET own == OwnerOf(found, n)
     IN ChunkRow(first_id + n - 1, doc.id, first_index + n - 1, own.table.section_id,
                 own.heading, own.table.page_number, own.table.page_number,
                 <<rows[n].row_text>>, "table_row", rows[n].table_uid, rows[n].row_index,
                 own.table.table_label)] \o <<>>

\* _TABLE_TOKEN_RE.search(text): the first table number that the text names
TableTokenOf(text) ==
  IF \E i \in 1..Len(text) : text[i].kind \in {"table", "ref"}
  THEN text[CHOOSE i \in 1..Len(text) :
              /\ text[i].kind \in {"table", "ref"}
              /\ \A j \in 1..(i - 1) : text[j].kind \notin {"table", "ref"}].id
  ELSE None

NotResolved == [table_uid |-> NoUid, table_label |-> <<>>]

\* ... ORDER BY table_index_on_page ASC
CandidatesOn(conn, document_id, page) ==
  LET on == {t \in conn.tables : t.document_id = document_id /\ t.page_number = page}
  IN [i \in 1..Cardinality(on) |->
        CHOOSE t \in on :
          Cardinality({u \in on : u.table_index_on_page < t.table_index_on_page}) = i - 1]
       \o <<>>

\* lines 210-218: the candidates with a row that holds the token
MatchRows(conn, candidates, token) ==
  {c.table_uid : c \in {c \in Range(candidates) :
     \E n \in 1..Len(conn.table_rows) :
       /\ conn.table_rows[n].table_uid = c.table_uid
       /\ conn.table_rows[n].row_text.kind \in {"table", "ref"}
       /\ conn.table_rows[n].row_text.id = token}}

\* lines 205-232, for a page with candidates
PickCandidate(candidates, matched) ==
  IF Len(candidates) = 1 THEN candidates[1]
  ELSE IF matched # {}
       THEN candidates[CHOOSE i \in 1..Len(candidates) :
                         /\ candidates[i].table_uid \in matched
                         /\ \A j \in 1..(i - 1) : candidates[j].table_uid \notin matched]
  ELSE NotResolved

RECURSIVE ResolveAt(_, _, _, _, _)
ResolveAt(conn, document_id, page_no, token, offsets) ==
  IF offsets = <<>> THEN NotResolved
  ELSE LET candidates == CandidatesOn(conn, document_id, page_no + Head(offsets))
       IN IF candidates = <<>>
          THEN ResolveAt(conn, document_id, page_no, token, Tail(offsets))
          ELSE PickCandidate(candidates, MatchRows(conn, candidates, token))

\* chunk_ingestion.py, lines 189-234
resolve_table_uid(conn, document_id, page_no, token) ==
  ResolveAt(conn, document_id, page_no, token, <<0, -1, 1>>)

\* lines 250-268, for one row of the SELECT
Linked(conn, r) ==
  IF TableTokenOf(r.text) = None THEN r
  ELSE LET resolved == resolve_table_uid(conn, r.document_id, r.page_start,
                                         TableTokenOf(r.text))
       IN IF resolved.table_uid = NoUid THEN r
          ELSE [r EXCEPT !.table_uid = resolved.table_uid,
                         !.table_label = resolved.table_label]

\* chunk_ingestion.py, lines 237-270
link_table_uids_for_document(conn, document_id) ==
  [conn EXCEPT !.chunks =
     [n \in 1..Len(conn.chunks) |->
        IF /\ conn.chunks[n].document_id = document_id
           /\ conn.chunks[n].chunk_kind \notin {"toc", "front_matter"}
           /\ conn.chunks[n].table_uid = NoUid
        THEN Linked(conn, conn.chunks[n])
        ELSE conn.chunks[n]] \o <<>>]

\* lines 292-433 for one document, given its pages and chunks
WithDocument(conn, doc, doc_pages, chunks) ==
  LET found == TablesOfPages(doc, doc_pages, ChunksSorted(chunks))
      rows == AllRows(found)
      plain == PlainRows(doc, chunks, Len(conn.chunks) + 1)
  IN link_table_uids_for_document(
       [chunks |-> conn.chunks \o plain
                     \o RowChunks(doc, found, rows, Len(conn.chunks) + Len(plain) + 1,
                                  Len(plain)),
        tables |-> Upserted(conn.tables, found),
        table_rows |-> conn.table_rows \o rows],
       doc.id)

RECURSIVE OverDocuments(_, _, _)
OverDocuments(conn, docs, page_rows) ==
  IF docs = <<>> THEN conn
  ELSE OverDocuments(
         WithDocument(conn, Head(docs), pages_of(page_rows, Head(docs).id),
                      chunk_document_pages(pages_of(page_rows, Head(docs).id))),
         Tail(docs), page_rows)

\* lines 281-284: the three tables are emptied
Wiped == [chunks |-> <<>>, tables |-> {}, table_rows |-> <<>>]

\* the three tables after rebuild_chunks
Rebuilt(docs, page_rows) == OverDocuments(Wiped, docs, page_rows)

\* table numbers "701.01-1", "701.02-1" and "701.02-2"
T1 == <<701, 1, 1>>
T2 == <<701, 2, 1>>
T3 == <<701, 2, 2>>

\* front matter
PFront == <<Prose, Prose>>
\* the opening page of a section
PSection == <<Line("section", <<701>>), Prose>>
\* a subsection with a table: a header and four rows, one blank line between
PTable ==
  <<Line("sub", <<701, 1>>), Prose, Line("table", T1), Row(1), Row(2), Blank, Row(3), Row(4)>>
\* two tables with the same rows, then a subsection that names the second
PTwoTables ==
  <<Prose, Prose, Line("sub", <<701, 2>>), Line("table", T2), Row(1), Row(2), Row(3), Row(4),
    Line("table", T3), Row(1), Row(2), Row(3), Row(4), Line("sub", <<701, 3>>),
    Line("ref", T3)>>
\* two tables where a row of the first names the second, then a subsection
\* that names the second
PCrossTables ==
  <<Line("sub", <<701, 2>>), Line("table", T2), Row(1), Row(2), Row(3), Line("ref", T3),
    Line("table", T3), Row(1), Row(2), Row(3), Row(4), Line("sub", <<701, 3>>),
    Line("ref", T3)>>
\* a page without a header: it continues the chunk of the page before
PContinued == <<Prose, Line("ref", T1)>>
\* a table block of fewer than five lines
PShortTable == <<Line("table", T1), Row(1), Row(2), Prose>>
\* a contents page
PToc == <<Line("toc", <<701, 1>>), Line("toc", <<701, 2>>)>>
\* an equation under a subsection header
PEquation == <<Line("sub", <<701, 4>>), Line("eq", <<65>>)>>
\* a page without text
PEmpty == <<>>

PageTexts ==
  {PFront, PSection, PTable, PTwoTables, PContinued, PShortTable, PToc, PEquation, PEmpty}

\* a formula line that scores exactly 0.45 ("=" alone: 0.25 + 0.2)
PThreshold == <<Line("sub", <<701, 4>>), Line("eq", <<45>>)>>
\* a formula line that scores 0.4 ("<" and two short names: 0.2 + 0.2)
PWeakEquation == <<Line("sub", <<701, 5>>), Line("eq", <<40>>)>>
\* a formula before the first header of the document
PFrontEquation == <<Prose, Line("eq", <<65>>)>>
\* a contents page with a formula line
PTocEquation == <<Line("toc", <<701, 1>>), Line("eq", <<65>>)>>

\* pages for the rarer cases of table linking and of classification
EdgePageTexts ==
  {PSection, PToc, PCrossTables, PThreshold, PWeakEquation, PFrontEquation, PTocEquation}

\* largest number of pages of the document
MaxPages == 3
\* number of runs of rebuild_chunks
MaxRebuilds == 2

\* the pages table: the pages of document 1, inserted in ascending or in
\* descending order of page_number
PageRows(texts, descending) ==
  [i \in 1..Len(texts) |->
     [document_id |-> 1,
      page_number |-> IF descending THEN Len(texts) + 1 - i ELSE i,
      text |-> texts[i]]] \o <<>>

StartIngest(page_texts) ==
  /\ NoRequest
  /\ NoConfidenceCall
  /\ NoFusionCall
  /\ NoIndexFiles
  /\ NoNearestCall
  /\ documents = <<[id |-> 1, filename |-> "standspec.pdf"]>>
  /\ pages_table \in {PageRows(texts, descending) :
                        texts \in UNION {[1..n -> page_texts] : n \in 1..MaxPages},
                        descending \in BOOLEAN}
  /\ chunks_table = <<>>
  /\ tables_table = {}
  /\ table_rows = <<>>
  /\ rebuilds = 0
  /\ NoTransaction

InitIngest == StartIngest(PageTexts)

\* chunk_ingestion.py, lines 273-442
RebuildChunks ==
  /\ rebuilds < MaxRebuilds
  /\ LET conn == Rebuilt(documents, pages_table)
     IN /\ chunks_table' = conn.chunks
        /\ tables_table' = conn.tables
        /\ table_rows' = conn.table_rows
  /\ rebuilds' = rebuilds + 1
  /\ UNCHANGED <<askVars, nearestVars, confidenceVars, fusionVars, indexVars, documents, pages_table,
                 rebuild_pc, uncommitted, stored_before, reader_saw>>

NextIngest ==
  \/ RebuildChunks

SpecIngest == InitIngest /\ [][NextIngest]_vars

\* the same runs over the pages of the rarer cases
InitIngestEdge == StartIngest(EdgePageTexts)

SpecIngestEdge == InitIngestEdge /\ [][NextIngest]_vars

(***************************************************************************)
(* rebuild_chunks as the steps of its connection (get_conn, db.py 10-19):  *)
(* the three DELETEs are committed at line 284, the rows are inserted in   *)
(* a second transaction that is committed at line 435, and an exception    *)
(* leaves get_conn through conn.close() without a commit.  Another         *)
(* connection reads what is committed.                                     *)
(***************************************************************************)
\* the three tables as they are stored
Stored == [chunks |-> chunks_table, tables |-> tables_table, table_rows |-> table_rows]

StepPageTexts == {PFront, PSection, PTable, PEmpty}

InitRebuildSteps == StartIngest(StepPageTexts)

\* lines 279-284: DELETE FROM table_rows, tables, chunks; conn.commit()
DeleteAndCommit ==
  /\ rebuild_pc \in {"idle", "failed"}
  /\ rebuilds < MaxRebuilds
  /\ stored_before' = Stored
  /\ chunks_table' = <<>>
  /\ tables_table' = {}
  /\ table_rows' = <<>>
  /\ uncommitted' = Wiped
  /\ rebuild_pc' = "wiped"
  /\ UNCHANGED <<askVars, nearestVars, confidenceVars, fusionVars, indexVars, documents, pages_table,
                 rebuilds, reader_saw>>

\* lines 286-433: the rows of every document are inserted
InsertRows ==
  /\ rebuild_pc = "wiped"
  /\ uncommitted' = Rebuilt(documents, pages_table)
  /\ rebuild_pc' = "inserted"
  /\ UNCHANGED <<askVars, nearestVars, confidenceVars, fusionVars, indexVars, documents, pages_table,
                 chunks_table, tables_table, table_rows, rebuilds, stored_before, reader_saw>>

\* line 435: conn.commit()
CommitRows ==
  /\ rebuild_pc = "inserted"
  /\ chunks_table' = uncommitted.chunks
  /\ tables_table' = uncommitted.tables
  /\ table_rows' = uncommitted.table_rows
  /\ uncommitted' = EmptyTables
  /\ rebuild_pc' = "idle"
  /\ rebuilds' = rebuilds + 1
  /\ UNCHANGED <<askVars, nearestVars, confidenceVars, fusionVars, indexVars, documents, pages_table,
                 stored_before, reader_saw>>

\* a statement after line 284 raises: get_conn closes the connection and
\* the rows of the open transaction are lost
RaiseInRebuild ==
  /\ rebuild_pc \in {"wiped", "inserted"}
  /\ uncommitted' = EmptyTables
  /\ rebuild_pc' = "failed"
  /\ rebuilds' = rebuilds + 1
  /\ UNCHANGED <<askVars, nearestVars, confidenceVars, fusionVars, indexVars, documents, pages_table,
                 chunks_table, tables_table, table_rows, stored_before, reader_saw>>

\* another connection reads the three tables
ReadStore ==
  /\ reader_saw' = [pc |-> rebuild_pc, tables |-> Stored, before |-> stored_before]
  /\ UNCHANGED <<askVars, nearestVars, confidenceVars, fusionVars, indexVars, documents, pages_table,
                 chunks_table, tables_table, table_rows, rebuilds, rebuild_pc, uncommitted,
                 stored_before>>

NextRebuildSteps ==
  \/ DeleteAndCommit
  \/ InsertRows
  \/ CommitRows
  \/ RaiseInRebuild
  \/ ReadStore

SpecRebuildSteps == InitRebuildSteps /\ [][NextRebuildSteps]_vars

(***************************************************************************)
(* faiss_chunks_search_filtered on its own (faiss_chunks.py 119-192).  The *)
(* index is given by its rows in the order of their similarity to the      *)
(* query: a run of rows of one document type, a run of another, and a run  *)
(* of the first again, each run shorter than, as long as or longer than    *)
(* the 50 neighbours that are fetched at least.                            *)
(***************************************************************************)
\* faiss_chunks.py, line 154: the neighbours fetched at least
MinFetch == 50

RunLengths == {0, 1, MaxK, MinFetch - 1, MinFetch, MinFetch + 1}

\* the meta row of a chunk of a document of type doc_type
MetaRow(doc_type, mp_id) == [doc_type |-> doc_type, mp_id |-> mp_id]

Run(row, n) == [i \in 1..n |-> row] \o <<>>

NearestScopes == {Scope("all", {}), Scope("standspec", {}), Scope("mp", {}), Scope("mp_only", {"MP1"})}

InitNearest ==
  /\ NoRequest
  /\ NoConfidenceCall
  /\ NoFusionCall
  /\ NoIndexFiles
  /\ NoIngestion
  /\ nearest \in {Run(MetaRow("standspec", ""), a) \o Run(MetaRow("mp", "MP1"), b)
                     \o Run(MetaRow("standspec", ""), c) :
                   a \in RunLengths, b \in RunLengths, c \in RunLengths}
  /\ nearest_k \in 1..MaxK
  /\ nearest_scope \in NearestScopes
  /\ nearest_done = FALSE
  /\ nearest_hits = <<>>

SearchNearest ==
  /\ ~nearest_done
  /\ nearest # <<>>
  /\ nearest_hits' = search_nearest(nearest, nearest_k, nearest_scope)
  /\ nearest_done' = TRUE
  /\ UNCHANGED <<askVars, confidenceVars, fusionVars, indexVars, ingestVars, nearest,
                 nearest_k, nearest_scope>>

NextNearest ==
  \/ SearchNearest

SpecNearest == InitNearest /\ [][NextNearest]_vars

(***************************************************************************)
(* Properties of ask_question.  A request has ended when pc = "done";      *)
(* result is then what ask_question returned.                              *)
(***************************************************************************)
Confidences == {"strong", "medium", "weak"}

InsufficientEvidence == Result("weak", WeakMsg, <<>>, NoTableBlock)

\* C1: ask_question never raises.  When a step of the inner pipeline raises an
\* exception that is not handled where it occurs, the handler of ask_question
\* takes it, and the request ends with confidence weak, the fixed
\* insufficient-evidence message and an empty hit list.
C1_NeverRaises ==
  /\ pc = "raised" => ENABLED AskQuestionExcept
  /\ raised # "none" => pc \in {"raised", "done"}
  /\ (raised # "none" /\ pc = "done") => result = InsufficientEvidence

\* an index read failed after retrieval had found hits with strong confidence
C1_RaisedAfterRetrieval ==
  pc = "done" /\ raised = "storage" /\ hits # <<>> /\ conf = "strong" /\ path = "exception"

\* C2: every result that ask_question returns, on every path, has a
\* confidence among strong, medium and weak.
C2_ConfidenceLabel == pc = "done" => result.confidence \in Confidences

\* a generated answer that admits insufficient evidence is downgraded to weak
C2_GeneratedDowngraded ==
  /\ pc = "done" /\ path = "generated"
  /\ conf \in {"strong", "medium"} /\ result.confidence = "weak"

\* C3: for a query about a day count or time limit, ask_question never
\* returns a generated answer that holds an integer absent from the source
\* block given to the generation service (such an answer is discarded for
\* the single-snippet fallback).
C3_NoAbsentInteger ==
  (pc = "done" /\ asks_about_days(query) /\ path = "generated") =>
    \A n \in nums_in_answer(result.answer) :
      AtomIn(n, Concat(format_sources_compact(top_hits(query, hits))))

\* the construction of the generation client, or the one call made to it, failed
GenerationFailed ==
  /\ pc = "done"
  /\ \/ llm.kind = "client_error" /\ path \notin {"no_preferred", "exception"}
     \/ llm.kind = "chat_error" /\ llm_calls = 1

\* C4: when the construction of the generation client or the generation call
\* fails, no further generation call is made (none after a failed
\* construction, none after the failed call) and the fallback is returned:
\* medium with exactly the first hit and its snippet as answer if there is a
\* hit, else weak without hits.
C4_GenerationFallback ==
  GenerationFailed =>
    /\ llm_calls = (IF llm.kind = "client_error" THEN 0 ELSE 1)
    /\ IF hits # <<>>
       THEN /\ result.confidence = "medium"
            /\ result.hits = <<hits[1]>>
            /\ result.answer = FallbackAnswer(Snippet(hits[1]))
            /\ result.table = NoTableBlock
       ELSE result.confidence = "weak" /\ result.hits = <<>>

\* the generation call failed on a request that had retrieved several hits
C4_CallFailedWithHits ==
  GenerationFailed /\ llm.kind = "chat_error" /\ Len(hits) >= 2 /\ path = "llm_fallback"

\* the in-scope table rows whose text is tagged with the table number tok
TaggedRows(tok) ==
  IF tok = NoToken THEN {}
  ELSE {c \in store : /\ c.chunk_kind = "table_row"
                      /\ c.table_uid # NoTable
                      /\ apply_scope_filters(c, scope)
                      /\ TableTokenIn(tok, c.text)}

\* the store holds rows tagged with tok, and their table has at least 2 rows
TableInStore(tok) ==
  /\ TaggedRows(tok) # {}
  /\ \A c \in TaggedRows(tok) : TableRowsOf(store, c.table_uid) >= 2

\* the table of tok was returned as a strong table block by the table
\* pre-lookup, before any other path, fusion or generation
StrongTableBlock(tok) ==
  /\ path = "table_prelookup"
  /\ result.confidence = "strong"
  /\ result.table.table_uid \in {c.table_uid : c \in TaggedRows(tok)}
  /\ result.hits # <<>>
  /\ llm_calls = 0
  /\ ~fusion_ran

TableRequest ==
  pc = "done" /\ raised = "none" /\ mode = "answer"
  /\ TableInStore(extract_table_token(query))

\* C5, as stated: in answer mode, a query with an explicit table number of
\* either form (TABLE DDD.DD-N or TABLE DDD.DD.DD-N) whose table is in the
\* store in scope with at least 2 rows gets a strong table-block result
\* without a generation call, ahead of the other paths.
C5_AnyTableToken ==
  (TableRequest /\ extract_table_token(query) # NoToken) =>
    StrongTableBlock(extract_table_token(query))

\* C5, amended: the same for a table number of the three-part form
\* TABLE DDD.DD.DD-N, on a request in which no read of the store fails.
C5_ThreePartTableToken ==
  (TableRequest /\ explicit_table(query)) =>
    StrongTableBlock(extract_table_token(query))

\* the pre-lookup answered a query that also begins with an exact section id
C5_PrelookupBeforeExact ==
  /\ TableRequest /\ explicit_table(query)
  /\ extract_exact_section_id(query) # None
  /\ path = "table_prelookup"

\* a chunk of the store in scope has exactly the section id the query begins with
ExactInScope ==
  /\ extract_exact_section_id(query) # None
  /\ \E c \in store : /\ c.section_id = extract_exact_section_id(query)
                      /\ NotTocOrFrontMatter(c)
                      /\ apply_scope_filters(c, scope)

\* C6: a query that is or begins with an exact section id, of which the store
\* holds in scope a chunk that is neither toc nor front_matter, gets
\* confidence strong, a non-empty answer and a non-empty hit list, without
\* fusion and without a generation call, in both modes.
C6_ExactSectionStrong ==
  (pc = "done" /\ raised = "none" /\ ExactInScope) =>
    /\ result.confidence = "strong"
    /\ result.answer # <<>>
    /\ result.hits # <<>>
    /\ ~fusion_ran
    /\ llm_calls = 0

\* the exact-section path answered with a merged excerpt
C6_ExactExcerpt ==
  /\ pc = "done" /\ ExactInScope /\ path = "section_exact"
  /\ mode = "answer" /\ ~is_bare_section_id_query(query)

\* the query names "Section P" and begins with no exact section id
SectionPQuery == PrefixLookupApplies(query) /\ SectionWordPrefix(query) # NoPrefix

\* the section-prefix lookup finds chunks in scope
PoolFound == prefix_pool(store, query, scope, k) # <<>>

\* the section id sid starts with "P."
UnderPrefix(sid, p) == sid # None /\ Len(sid) >= 2 /\ sid[1] = p

\* C7: for a "Section P" query in sources-only mode whose prefix lookup finds
\* chunks in scope, every returned hit has a section id that starts with "P.".
C7_HitsUnderPrefix ==
  (pc = "done" /\ raised = "none" /\ mode = "sources_only" /\ SectionPQuery /\ PoolFound) =>
    \A i \in 1..Len(result.hits) :
      UnderPrefix(result.hits[i].section_id, SectionWordPrefix(query))

\* C8: for a "Section P" query without table or location vocabulary, in
\* answer mode, whose prefix lookup finds at least one chunk, the confidence
\* is medium or strong and the answer is a merged excerpt that holds [1].
C8_SectionExcerpt ==
  (/\ pc = "done" /\ raised # "storage" /\ mode = "answer"
   /\ SectionPQuery /\ PoolFound
   /\ ~looks_like_table_query(query)
   /\ ~question_asks_for_section_or_page(query)) =>
    /\ result.confidence \in {"medium", "strong"}
    /\ Cite(1) \in Range(result.answer)

\* the pool from which the section-prefix path takes its hits
FilteredPool ==
  filter_mismatched_section_hits(prefix_pool(store, query, scope, k),
                                 extract_section_prefix(query))

\* C9: for a "Section P" query whose in-scope prefix pool holds a chunk of
\* P.01 and a chunk of P.02, the returned hits hold a chunk of P.01 and a
\* chunk whose section id starts with P.02, whatever the lexical rank and k.
C9_KeySubsections ==
  (/\ pc = "done" /\ raised = "none" /\ SectionPQuery
   /\ \E c \in Range(FilteredPool) : c.section_id = <<SectionWordPrefix(query), 1>>
   /\ \E c \in Range(FilteredPool) : c.section_id = <<SectionWordPrefix(query), 2>>) =>
    /\ \E i \in 1..Len(result.hits) :
         result.hits[i].section_id = <<SectionWordPrefix(query), 1>>
    /\ \E i \in 1..Len(result.hits) :
         IdStartsWith(result.hits[i].section_id, <<SectionWordPrefix(query), 2>>)

\* no chunk of the store in scope has a positive lexical score for the query
NoLexicalMatch ==
  \A c \in store :
    apply_scope_filters(c, scope) => Bm25Score(tokenize(query), tokenize(c.text)) = 0

\* C10: in answer mode, for a query without section or table intent for
\* which no in-scope chunk has a positive lexical score, the result is weak,
\* with no hit or with exactly one hit that passes the relevance check.
C10_NoMatchIsWeak ==
  (/\ pc = "done" /\ raised = "none" /\ mode = "answer"
   /\ ~is_section_intent(query) /\ ~looks_like_table_query(query)
   /\ NoLexicalMatch) =>
    /\ result.confidence = "weak"
    /\ \/ result.hits = <<>>
       \/ Len(result.hits) = 1 /\ is_relevant_hit(query, result.hits[1])

\* the request has reached the generation stage, or has called the model
GenerationReached == pc = "generate" \/ llm_calls > 0

\* C11: the generation model is invoked only after every deterministic path
\* has declined: never in sources_only mode, never with weak confidence or
\* an empty hit list, and never for a section-intent query that has neither
\* table nor location intent.
C11_GenerationLast ==
  GenerationReached =>
    /\ mode = "answer"
    /\ conf \in {"strong", "medium"}
    /\ hits # <<>>
    /\ ~(/\ is_section_intent(query)
         /\ ~looks_like_table_query(query)
         /\ ~question_asks_for_section_or_page(query))
    /\ table_prelookup(store, query, scope, mode) = NoResult
    /\ exact_section(store, query, scope, k, mode) = NoResult
    /\ deterministic(store, query, hits, conf) = NoResult

\* the model was called for a section-intent query that has table intent
C11_CalledForSectionTable ==
  llm_calls = 1 /\ is_section_intent(query) /\ looks_like_table_query(query)

\* the request ended in the generation stage, after the source block was built
SourceBlockBuilt ==
  /\ pc = "done"
  /\ path \in {"llm_fallback", "time_limit_gate", "numeric_guard", "statute", "generated"}

\* a time-limit question whose source block has no "<N> days ... receipt /
\* payment" pattern
TimeLimitWithoutEvidence ==
  /\ SourceBlockBuilt
  /\ is_time_limit_question(query)
  /\ ~has_payment_days_phrase(format_sources_compact(top_hits(query, hits)))

\* C12: for a time-limit question whose source block holds no "<N> days ...
\* receipt/payment" pattern, the answer is "Insufficient Evidence." with
\* confidence weak, and the generation model is not invoked.
C12_TimeLimitGate ==
  TimeLimitWithoutEvidence =>
    /\ result.answer = <<W("insufficient"), W("evidence")>>
    /\ result.confidence = "weak"
    /\ llm_calls = 0

\* the scope predicate of the request on a hit: its doc_type matches the
\* scope and, for mp_only, its mp_id is one of the requested mp_ids
InScope(c) ==
  /\ scope.name # "all" =>
       c.doc_type = (IF scope.name = "mp_only" THEN "mp" ELSE scope.name)
  /\ scope.name = "mp_only" => c.mp_id \in scope.mp_ids

\* C13: every hit that ask_question or hybrid search returns, on every path
\* (index searches and document-store lookups), satisfies the scope predicate
\* of the request.
C13_HitsInScope ==
  /\ \A i \in 1..Len(hits) : InScope(hits[i])
  /\ \A i \in 1..Len(result.hits) : InScope(result.hits[i])

LevelRank(l) == CASE l = "weak" -> 0 [] l = "medium" -> 1 [] l = "strong" -> 2

IsStrong == top_rrf >= StrongScore /\ overlap_top10 >= 1

\* C14: compute_confidence(top_score, overlap) is strong exactly when top_score
\* is at least 0.035 and overlap at least 1, medium exactly when it is not
\* strong and top_score is at least 0.02, and weak otherwise; and a call with
\* the same overlap and a lower top score never gives a higher level.
C14_ConfidenceLevels ==
  [](level # "none" =>
       /\ level \in {"strong", "medium", "weak"}
       /\ level = "strong" <=> IsStrong
       /\ level = "medium" <=> (~IsStrong /\ top_rrf >= MediumScore)
       /\ level = "weak" <=> (~IsStrong /\ top_rrf < MediumScore))
    /\ [][(level # "none" /\ overlap_top10' = overlap_top10 /\ top_rrf' <= top_rrf)
            => LevelRank(level') <= LevelRank(level)]_vars

\* a call that is strong only with an overlap has been followed by a lower one
C14_StrongThenLower ==
  /\ level = "medium"
  /\ top_rrf = StrongScore - 1
  /\ overlap_top10 >= 1

\* fused.get(key, 0.0)
ScoreOf(f, key) ==
  IF \E i \in 1..Len(f.keys) : f.keys[i] = key
  THEN f.score[CHOOSE i \in 1..Len(f.keys) : f.keys[i] = key]
  ELSE 0

\* the 1-based rank of key in lst, 0 when lst does not contain it
RankIn(lst, key) ==
  IF \E i \in 1..Len(lst) : lst[i] = key THEN CHOOSE i \in 1..Len(lst) : lst[i] = key ELSE 0

\* 1/(60 + rank) for the lists that contain key, nothing for the others
ShareOf(lst, key) == IF RankIn(lst, key) = 0 THEN 0 ELSE 1000000 \div (60 + RankIn(lst, key))

AddedToOneList(lists, lists2, key) ==
  \E i \in 1..Len(lists) :
    /\ RankIn(lists[i], key) = 0
    /\ RankIn(lists2[i], key) # 0
    /\ \A j \in (1..Len(lists)) \ {i} : lists2[j] = lists[j]

SameListsNoBetterRank(lists, lists2, key) ==
  \A i \in 1..Len(lists) :
    /\ RankIn(lists[i], key) = 0 <=> RankIn(lists2[i], key) = 0
    /\ RankIn(lists2[i], key) >= RankIn(lists[i], key)

\* C15: reciprocal_rank_fusion gives each id the sum of 1/(60 + rank) over the
\* lists that contain it (rank 1-based), and nothing for a list that does not
\* contain it; an id added to a further list never has a lower score, and an
\* id in the same lists at ranks that are not better never has a higher one.
C15_FusedScores ==
  [](is_fused =>
       \A key \in 1..MaxKeys :
         ScoreOf(fused, key) = ShareOf(ranked_lists[1], key) + ShareOf(ranked_lists[2], key))
    /\ [][is_fused =>
            \A key \in 1..MaxKeys :
              /\ AddedToOneList(ranked_lists, ranked_lists', key)
                   => ScoreOf(fused', key) >= ScoreOf(fused, key)
              /\ SameListsNoBetterRank(ranked_lists, ranked_lists', key)
                   => ScoreOf(fused', key) <= ScoreOf(fused, key)]_vars

\* an id of both lists is first in one and last of three in the other
C15_FusedTwice ==
  /\ is_fused
  /\ RankIn(ranked_lists[1], 1) = 1
  /\ RankIn(ranked_lists[2], 1) = 3
  /\ RankIn(ranked_lists[1], 2) = 0
  /\ ScoreOf(fused, 1) > ScoreOf(fused, 2)
  /\ ScoreOf(fused, 2) > 0

\* C16: a query that runs while the indexes are rebuilt never has a partially
\* written index, nor a vector index whose vectors and metadata are of
\* different generations: every file it loaded is whole, and the two files of
\* the vector index are of one generation.
C16_WholeIndexes ==
  read_pc = "search" =>
    /\ \A f \in IndexFiles : loaded[f].blocks = FileBlocks
    /\ loaded["faiss_chunks.index"].gen = loaded["faiss_chunks_meta.pkl"].gen

\* C17: after rebuild_chunks, which reads the pages in ascending order of
\* page_number, every stored chunk has page_start <= page_end, and a chunk
\* has a table_row_index exactly when its chunk_kind is table_row; the
\* table-linking pass at the end of the rebuild keeps both.
C17_ChunkShape ==
  rebuilds >= 1 =>
    \A n \in 1..Len(chunks_table) :
      /\ chunks_table[n].page_start <= chunks_table[n].page_end
      /\ chunks_table[n].table_row_index # NullRow <=> chunks_table[n].chunk_kind = "table_row"

\* a rebuild stored a chunk over two pages that were inserted in descending
\* order, a table-row chunk, and a text chunk linked to a table
C17_RebuiltWithTables ==
  /\ rebuilds >= 1
  /\ Len(pages_table) >= 2
  /\ pages_table[1].page_number > pages_table[2].page_number
  /\ \E n \in 1..Len(chunks_table) : chunks_table[n].page_start < chunks_table[n].page_end
  /\ \E n \in 1..Len(chunks_table) : chunks_table[n].chunk_kind = "table_row"
  /\ \E n \in 1..Len(chunks_table) :
       /\ chunks_table[n].chunk_kind = "content"
       /\ chunks_table[n].table_uid # NoUid

\* C18: a run of rebuild_chunks over unchanged documents and pages leaves the
\* tables as the run before left them: the same table_uids with the same
\* rows, so a table whose content is unchanged keeps its table_uid.
C18_TablesIdempotent ==
  [][(rebuilds >= 1 /\ rebuilds' = rebuilds + 1 /\ documents' = documents
        /\ pages_table' = pages_table)
       => /\ tables_table' = tables_table
          /\ table_rows' = table_rows
          /\ {t.table_uid : t \in tables_table'} = {t.table_uid : t \in tables_table}]_vars

\* rebuild_chunks has run twice over a document with two tables on a page
C18_RebuiltTwice ==
  /\ rebuilds = 2
  /\ \E t, u \in tables_table :
       /\ t.page_number = u.page_number
       /\ t.table_index_on_page # u.table_index_on_page
  /\ table_rows # <<>>

\* number of rows of the index that are in scope
InScopeRows ==
  Cardinality({i \in 1..Len(nearest) :
                /\ nearest_scope.name # "all"
                     => nearest[i].doc_type
                          = (IF nearest_scope.name = "mp_only" THEN "mp" ELSE nearest_scope.name)
                /\ nearest_scope.name = "mp_only" => nearest[i].mp_id \in nearest_scope.mp_ids})

\* C19: faiss_chunks_search_filtered takes the min(N, max(8k, 50)) nearest
\* neighbours and then applies the scope predicate, and the filtering never
\* starves the result: when at least k rows of the index are in scope, the
\* search returns k hits.
C19_NeverStarved ==
  nearest_done =>
    /\ Len(nearest_hits) <= nearest_k
    /\ InScopeRows >= nearest_k => Len(nearest_hits) = nearest_k

\* the query has section intent and an exact section target or, failing
\* that, a "Section P" prefix target
HasSectionTarget ==
  /\ is_section_intent(query)
  /\ extract_section_pattern(query) # None \/ SectionWordPrefix(query) # NoPrefix

\* the section id of the chunk matches the target of the query
MatchesTarget(h) ==
  IF extract_section_pattern(query) # None
  THEN h.section_id = extract_section_pattern(query)
  ELSE h.section_id # None /\ h.section_id[1] = SectionWordPrefix(query)

\* C20: for a section-intent query with an exact section target (or, failing
\* that, a "Section P" prefix target), every chunk of the list returned by
\* hybrid_chunks_search whose section id matches the target stands before
\* every chunk whose section id does not.
C20_MatchingFirst ==
  (pc = "done" /\ fusion_ran /\ HasSectionTarget) =>
    \A i, j \in 1..Len(hits) :
      (MatchesTarget(hits[i]) /\ ~MatchesTarget(hits[j])) => i < j

\* the answer quotes the closest match
QuotesClosestMatch ==
  /\ pc = "done"
  /\ Len(result.answer) >= 2
  /\ SubSeq(result.answer, 1, 2) = <<W("closest"), W("match")>>

\* the chunk has a section id that starts with the dotted id of the query
SharesSection(c) ==
  /\ extract_section_pattern(query) # None
  /\ c.section_id # None
  /\ Len(c.section_id) >= Len(extract_section_pattern(query))
  /\ SubSeq(c.section_id, 1, Len(extract_section_pattern(query))) = extract_section_pattern(query)

\* number of relevance tokens that the query and the snippet of the chunk share
SharedTokens(c) ==
  Cardinality(tokenize_relevance(query) \cap tokenize_relevance(Snippet(c)))

\* C21: _weak_response returns a hit and quotes its snippet only if the top
\* hit has a section id that starts with the dotted section id of the query
\* or shares at least 2 relevance tokens with the query; otherwise it returns
\* the fixed insufficient-evidence message without hits.
C21_ClosestMatchRelevant ==
  /\ QuotesClosestMatch =>
       /\ Len(result.hits) = 1
       /\ SharesSection(result.hits[1]) \/ SharedTokens(result.hits[1]) >= 2
  /\ (pc = "done" /\ result.answer = WeakMsg) => result.hits = <<>>

\* the low-value chunks of a hit list
LowValueOf(hs) == SelectSeq(hs, LAMBDA c : c.chunk_kind \in LowValueKinds)

\* C22: in answer mode, for a query with neither table intent nor section
\* intent and at least one preferred (non-toc, non-front_matter,
\* non-table_row) hit, the hit list that leaves the low-value preference
\* step holds at most one low-value chunk.
C22_OneLowValueHit ==
  ( /\ pc = "tables"
    /\ mode = "answer"
    /\ ~looks_like_table_query(query)
    /\ ~is_section_intent(query)
    /\ Len(LowValueOf(hits)) < Len(hits) )
  => Len(LowValueOf(hits)) <= 1

\* the tables of the first page among the chunk's page, the page before and
\* the page after that has tables
TablesNear(c) ==
  IF CandidatesOn(Stored, c.document_id, c.page_start) # <<>>
  THEN CandidatesOn(Stored, c.document_id, c.page_start)
  ELSE IF CandidatesOn(Stored, c.document_id, c.page_start - 1) # <<>>
  THEN CandidatesOn(Stored, c.document_id, c.page_start - 1)
  ELSE CandidatesOn(Stored, c.document_id, c.page_start + 1)

\* the tables among cands with a row that holds the token
WithTokenRow(cands, token) ==
  {t \in Range(cands) :
     \E n \in 1..Len(table_rows) :
       /\ table_rows[n].table_uid = t.table_uid
       /\ table_rows[n].row_text.kind \in {"table", "ref"}
       /\ table_rows[n].row_text.id = token}

\* C23: an inline table reference is linked only if the resolved page (the
\* chunk's page, else the page before, else the page after that has tables)
\* holds exactly one table or exactly one of its candidate tables has a row
\* that contains the token; when several candidates match the token, or
\* none does, no link is made.
C23_LinkOnlyWhenUnambiguous ==
  \A n \in 1..Len(chunks_table) :
    (chunks_table[n].chunk_kind # "table_row" /\ chunks_table[n].table_uid # NoUid)
    => \/ Len(TablesNear(chunks_table[n])) = 1
       \/ Cardinality(WithTokenRow(TablesNear(chunks_table[n]),
                                   TableTokenOf(chunks_table[n].text))) = 1

\* the kind that line 328 gives to a chunk with these lines and section id
KindByScore(text, section_id) ==
  IF \E i \in 1..Len(text) : text[i].kind = "eq" /\ text[i].id[1] >= 45 THEN "equation"
  ELSE IF \E i \in 1..Len(text) : text[i].kind = "toc" THEN "toc"
  ELSE IF section_id = None THEN "front_matter"
  ELSE "content"

\* the kind by the decision order toc, front_matter, equation, content
KindByOrder(text, section_id) ==
  IF \E i \in 1..Len(text) : text[i].kind = "toc" THEN "toc"
  ELSE IF section_id = None THEN "front_matter"
  ELSE IF \E i \in 1..Len(text) : text[i].kind = "eq" /\ text[i].id[1] > 45 THEN "equation"
  ELSE "content"

\* C24 (as stated): rebuild_chunks classifies each non-table chunk in the
\* order toc if TOC-like, otherwise front_matter if it has no section id,
\* otherwise equation if equation_score exceeds 0.45, otherwise content; a
\* chunk without section id, or a TOC-like chunk, is never labelled equation
\* or content.
C24_TocFirst ==
  \A n \in 1..Len(chunks_table) :
    chunks_table[n].chunk_kind # "table_row"
    => chunks_table[n].chunk_kind
         = KindByOrder(chunks_table[n].text, chunks_table[n].section_id)

\* C24 (amended): rebuild_chunks classifies each non-table chunk in the
\* order equation if equation_score is 0.45 or more, otherwise toc if
\* TOC-like, otherwise front_matter if it has no section id, otherwise
\* content; a chunk without section id, or a TOC-like chunk, is never
\* labelled content.
C24_EquationFirst ==
  \A n \in 1..Len(chunks_table) :
    chunks_table[n].chunk_kind # "table_row"
    => chunks_table[n].chunk_kind
         = KindByScore(chunks_table[n].text, chunks_table[n].section_id)

\* a rebuild has stored an equation chunk without section id and a content
\* chunk whose formula line scores less than 0.45
C24_EquationWithoutSection ==
  /\ rebuilds > 0
  /\ \E n \in 1..Len(chunks_table) :
       /\ chunks_table[n].chunk_kind = "equation"
       /\ chunks_table[n].section_id = None
  /\ \E n \in 1..Len(chunks_table) :
       /\ chunks_table[n].chunk_kind = "content"
       /\ \E i \in 1..Len(chunks_table[n].text) : chunks_table[n].text[i].kind = "eq"

\* the pages of the document that have no text
EmptyPages == {i \in 1..Len(pages_table) : pages_table[i].text = <<>>}

\* C25 (as stated): segmentation never raises on empty page text, and a page
\* whose text is empty yields a single chunk with empty text in the output
\* of chunk_document_pages.
C25_EmptyPageChunk ==
  /\ Len(split_page_into_segments(<<>>)) = 1
  /\ rebuilds > 0 =>
       \A i \in EmptyPages :
         Cardinality({n \in 1..Len(chunks_table) :
                        /\ chunks_table[n].text = <<>>
                        /\ chunks_table[n].page_start <= pages_table[i].page_number
                        /\ pages_table[i].page_number <= chunks_table[n].page_end}) = 1

\* C25 (amended): segmentation never raises on empty page text: an empty
\* page is one segment with empty text and without section id, and
\* chunk_document_pages puts no chunk with empty text in its output, so a
\* document whose pages are all empty has no chunk.
C25_NoEmptyChunk ==
  /\ split_page_into_segments(<<>>)
       = <<[section_id |-> None, heading |-> None, text |-> <<>>]>>
  /\ rebuilds > 0 =>
       /\ \A n \in 1..Len(chunks_table) : chunks_table[n].text # <<>>
       /\ Cardinality(EmptyPages) = Len(pages_table) => chunks_table = <<>>

\* a rebuild of a document with an empty page between two pages with text
C25_RebuiltWithEmptyPage ==
  /\ rebuilds > 0
  /\ Len(pages_table) = 3
  /\ \E i \in EmptyPages : pages_table[i].page_number = 2
  /\ Cardinality(EmptyPages) = 1
  /\ chunks_table # <<>>

\* the request has come back from hybrid_chunks_search
FusedTwoLists == fusion_ran /\ pc = "route"

\* C26: when only the two raw ranked lists are fused (no third list of
\* equation chunks, no equation boost, no table-token bonus), the top fused
\* score is at most 2/61, which is less than 0.035, so the search never
\* reports the confidence strong for such a query, whatever the overlap.
\* Scores are in millionths; no query of the model is an equation query.
C26_TwoListsNeverStrong ==
  (FusedTwoLists /\ TwoPartTableToken(query) = NoToken)
  => /\ conf # "strong"
     /\ \A i \in 1..Len(hits) : hits[i].score <= 2 * (1000000 \div 61)
     /\ 2 * (1000000 \div 61) < 35000

\* both searches rank the same chunk first and the confidence is medium
C26_TopOfBothLists ==
  /\ FusedTwoLists
  /\ TwoPartTableToken(query) = NoToken
  /\ hits # <<>>
  /\ hits[1].score = 2 * (1000000 \div 61)
  /\ conf = "medium"

\* the query holds a dotted section id, DDD.DD or DDD.DD.DD, on its own or
\* inside a table number
HasDottedId(q) ==
  \E i \in 1..Len(q) : q[i].t \in {"sec", "tab"} /\ Len(q[i].id) >= 2

\* an answer-mode request for a query with a dotted id
DottedRequest == mode = "answer" /\ HasDottedId(query)

\* C27 (as stated): in answer mode, every query that contains a dotted section id
\* (including inside a table token) and is not answered by the table
\* prelookup or the exact-section path receives the fixed answer "See the
\* citations panel" with the retrieved hits; it never reaches the
\* merged-excerpt branch, the table-token targeting branch or generation.
C27_SeeCitations ==
  DottedRequest
  => /\ pc \notin {"tables", "generate"}
     /\ llm_calls = 0
     /\ (pc = "done" /\ path \notin {"table_prelookup", "section_exact"})
        => result.answer = SeeCitations /\ result.hits = hits

\* C27 (amended): in answer mode, a query that contains a dotted section id
\* (including inside a table token) never reaches the merged-excerpt
\* branch, the table-token targeting branch or generation.  When it is not
\* answered by the table prelookup or the exact-section path, it receives
\* the retrieved hits with the answer "See the citations panel", which for
\* a query that is a bare section id continues "for Section <id>"; when an
\* exception ended the request it receives the insufficient-evidence
\* message without hits.
C27_CitationsPanel ==
  DottedRequest
  => /\ pc \notin {"tables", "generate"}
     /\ llm_calls = 0
     /\ (pc = "done" /\ path \notin {"table_prelookup", "section_exact"})
        => IF raised # "none"
           THEN result.answer = WeakMsg /\ result.hits = <<>>
           ELSE /\ result.hits = hits
                /\ result.answer =
                     IF Len(query) = 1
                     THEN SeeCitations \o <<W("for"), W("section"), query[1]>>
                     ELSE SeeCitations

\* a query with a dotted id and more words got the citations panel answer
\* with hits
C27_PanelWithHits ==
  /\ DottedRequest
  /\ pc = "done"
  /\ path = "section_lookup"
  /\ Len(query) > 1
  /\ result.answer = SeeCitations
  /\ result.hits # <<>>

\* the answer text expresses insufficiency
ExpressesInsufficiency(answer) ==
  \/ ContainsSeq(answer, <<W("insufficient"), W("evidence")>>)
  \/ ContainsSeq(answer, <<W("could"), W("not"), W("find")>>)
  \/ ContainsSeq(answer, <<Couldnt, W("find")>>)
  \/ ContainsSeq(answer, <<CouldntTypographic, W("find")>>)

\* C28: on every path of ask_question, a result whose answer text expresses
\* insufficiency (contains "insufficient evidence", "could not find" or
\* "couldn't find") carries the confidence weak.
C28_InsufficiencyIsWeak ==
  (pc = "done" /\ ExpressesInsufficiency(result.answer)) => result.confidence = "weak"

\* C29: rebuild_chunks is all-or-nothing: if it fails partway through, or is
\* observed by a reader before it finishes, the chunks, tables and
\* table_rows that were stored before the rebuild started are still the
\* ones visible in the document store.
C29_AllOrNothing ==
  /\ rebuild_pc \in {"wiped", "inserted", "failed"} => Stored = stored_before
  /\ reader_saw.pc \in {"wiped", "inserted", "failed"} => reader_saw.tables = reader_saw.before

\* the words before position i of the answer are the snippet of chunk c
QuotedBefore(answer, i, c) ==
  /\ i > Len(Snippet(c))
  /\ SubSeq(answer, i - Len(Snippet(c)), i - 1) = Snippet(c)

\* the words after position i of the answer are the excerpt entry of chunk
\* c: its heading, its pages and its snippet
EntryAfter(answer, i, c) ==
  /\ i + Len(c.heading \o Pages(c) \o Snippet(c)) <= Len(answer)
  /\ SubSeq(answer, i + 1, i + Len(c.heading \o Pages(c) \o Snippet(c)))
       = c.heading \o Pages(c) \o Snippet(c)

\* the request ended on a path that writes the answer without the
\* generation model's text
DeterministicAnswer == pc = "done" /\ path # "generated"

\* C30: whenever a deterministic path of ask_question puts a citation
\* marker [n] into the answer (merged excerpt entries, closest-match weak
\* answer, generation fallback, table-token and passthrough snippets), n is
\* between 1 and the length of the returned hit list and the n-th returned
\* hit is the chunk whose snippet that text was taken from.
C30_MarkersPointToHits ==
  DeterministicAnswer
  => \A i \in 1..Len(result.answer) :
       result.answer[i].t = "cite"
       => /\ result.answer[i].n \in 1..Len(result.hits)
          /\ \/ QuotedBefore(result.answer, i, result.hits[result.answer[i].n])
             \/ EntryAfter(result.answer, i, result.hits[result.answer[i].n])

\* a merged excerpt of two hits or more was returned
C30_MergedExcerptOfTwo ==
  /\ DeterministicAnswer
  /\ Len(result.hits) >= 2
  /\ \E i \in 1..Len(result.answer) :
       /\ result.answer[i] = Cite(2)
       /\ EntryAfter(result.answer, i, result.hits[2])

====
